---- MODULE Spec2Model ----
(***************************************************************************)
(* A model of go-bundler (lvl5hm/go-bundler).                              *)
(*                                                                         *)
(* Spec      the build driver of main.go: createBundle, addFilesToBundle,  *)
(*           addFileToBundle and getJsBundleFileTail, run against a file   *)
(*           system that changes between builds.                           *)
(* TailSpec  getJsBundleFileTail as a function of the dependency graph     *)
(*           the cache records.                                            *)
(* ParseSpec jsLoader.LoadFile on short token sequences: parseTokens with  *)
(*           its panics and recover, then the rest of LoadFile.            *)
(* BinarySpec  LoadFile on operand/operator sequences under every operator *)
(*           table (parseBinary).                                          *)
(* ResolveSpec  resolveES6ImportPath on import paths of a few segments,    *)
(*           and on its own result.                                        *)
(* TransformSpec  transformIntoModule on short programs.                   *)
(* WatchSpec  main's build followed by the polls of watchBundledFiles.     *)
(***************************************************************************)
EXTENDS Integers, Sequences, FiniteSets, TLC

VARIABLES
    disk,        \* the file system: path -> the text of the file (rev 0: no file)
    now,         \* the file system's clock (source of modification times)
    cacheFiles,  \* bundleCache.Files: map path -> fileCache
    bundle,      \* the chunks written to bundle.js since os.Create
    stack,       \* the activations of addFilesToBundle, innermost last
    pc,          \* position of the program: "init", "traverse", "done" (driver)
    lastErr,     \* the err createBundle printed for the last finished build
    warnings,    \* circular-dependency warnings printed by the last build
    visits,      \* per build: number of addFileToBundle invocations per path
    claimed,     \* per build: invocations that passed the claim step
    loads,       \* per build: calls of jsLoader.LoadFile per path
    copied,      \* assets copyFile has put into the bundle directory
    goodBundle,  \* content of bundle.js when the last successful build ended
    sourceTokens,   \* parserState.sourceTokens: the tokens lex returned
    tokCap,         \* cap(sourceTokens)
    operatorTable,  \* the package's operatorTable: tokenType -> operator
    parsed,         \* what parseTokens returned
    loadResult,     \* what LoadFile returned
    importPath,       \* resolveES6ImportPath's argument importPath
    currentFileName,  \* resolveES6ImportPath's argument currentFileName
    resolved,         \* what resolveES6ImportPath returned
    resolvedAgain,    \* what it returned for its own result
    initialProgram,   \* LoadFile's initialProgram: the tree parseTokens built
    transformed       \* what transformIntoModule returned for it

driverVars == <<disk, now, cacheFiles, bundle, stack, lastErr, warnings,
                visits, claimed, loads, copied, goodBundle>>

resolverVars == <<importPath, currentFileName, resolved, resolvedAgain>>

transformVars == <<initialProgram, transformed>>

\* the variables of package jsLoader
\* the variables of package jsLoader
parserVars ==
    <<sourceTokens, tokCap, operatorTable, parsed, loadResult, resolverVars,
      transformVars>>

vars == <<driverVars, parserVars, pc>>

(***************************************************************************)
(* Paths are sequences of characters, so that filepath.Ext and             *)
(* CreateVarNameFromPath work on them as they do on Go strings.            *)
(***************************************************************************)
A == <<"a", ".", "j", "s">>
B == <<"b", ".", "j", "s">>
C == <<"c", ".", "j", "s">>
D == <<"d", ".", "c", "s", "s">>

Files == {A, B, C, D}

entryFileName == A

DotJs == <<".", "j", "s">>

\* Bound: the file system clock stops at MaxTime (files are written at most
\* MaxTime - 1 times after the initial state).
MaxTime == 2

RECURSIVE LastIndexOf(_, _, _)
LastIndexOf(s, ch, i) ==
    IF i = 0 THEN 0
    ELSE IF s[i] = ch THEN i
    ELSE LastIndexOf(s, ch, i - 1)

\* filepath.Ext: the suffix from the last dot of the last path element.
Ext(path) ==
    LET dot   == LastIndexOf(path, ".", Len(path))
        slash == LastIndexOf(path, "/", Len(path))
    IN  IF dot = 0 \/ dot < slash THEN <<>>
        ELSE SubSeq(path, dot, Len(path))

CreateVarNameFromPath(path) ==
    [i \in DOMAIN path |->
        IF path[i] \in {"/", ".", "-"} THEN "_" ELSE path[i]]

RECURSIVE indexOfFrom(_, _, _)
indexOfFrom(arr, str, i) ==
    IF i > Len(arr) THEN -1
    ELSE IF arr[i] = str THEN i - 1
    ELSE indexOfFrom(arr, str, i + 1)

\* indexOf of main.go (0-based, -1 when absent)
indexOf(arr, str) == indexOfFrom(arr, str, 1)

(***************************************************************************)
(* Values                                                                  *)
(***************************************************************************)
\* the zero value of token
ZeroToken == [tType |-> "zero", lexeme |-> "", line |-> 0, column |-> 0]

\* a nil error of parseTokens
NoParseErr == [kind |-> "nil", tok |-> ZeroToken, context |-> <<>>]

\* parsingError{kind, token, context}
parsingError(kind, tok, context) ==
    [kind |-> kind, tok |-> tok, context |-> context]

\* the parsing error the driver's non-parsing texts stand for
SomeParsingError == parsingError("p_UNEXPECTED_TOKEN", ZeroToken, <<>>)

NoErr == [kind |-> "nil", path |-> <<>>, err |-> NoParseErr]

fileError(path) == [kind |-> "fileError", path |-> path, err |-> NoParseErr]

\* jsLoader.LoaderError{err, fileName}
LoaderError(err, fileName) ==
    [kind |-> "LoaderError", path |-> fileName, err |-> err]

NoPanic == [kind |-> "none", tok |-> ZeroToken, context |-> <<>>]

\* the zero value of astNode; pos is the line and column of the token a
\* node's value was read from (not a field of astNode: it tells the nodes
\* of equal operators apart)
ZeroNode ==
    [t |-> "zero", value |-> "", children |-> <<>>, flags |-> 0,
     pos |-> <<0, 0>>]

NoParse ==
    [program |-> ZeroNode, err |-> NoParseErr, returned |-> FALSE,
     panic |-> NoPanic]

NoLoad == [data |-> <<>>, imports |-> <<>>, err |-> NoErr]

\* an operator table with the order of JavaScript's operators
StandardTable ==
    [t \in {"tPLUS", "tMULT", "tIN"} |->
        [precedence      |-> CASE t = "tMULT" -> 3 [] t = "tPLUS" -> 2
                                  [] t = "tIN" -> 1,
         isRightAssociative |-> FALSE]]

\* resolveES6ImportPath has not returned
NoResolution == [result |-> <<>>, fault |-> FALSE, returned |-> FALSE]

\* the resolver's variables while something else is modelled
ResolverIdle ==
    /\ importPath = <<>>
    /\ currentFileName = <<>>
    /\ resolved = NoResolution
    /\ resolvedAgain = NoResolution

\* transformIntoModule has not returned
NoTransform ==
    [res |-> ZeroNode, fileImports |-> <<>>, fault |-> FALSE,
     returned |-> FALSE]

\* transformIntoModule's variables while something else is modelled
TransformIdle ==
    /\ initialProgram = ZeroNode
    /\ transformed = NoTransform

\* the parser's variables while the driver is modelled
ParserIdle ==
    /\ sourceTokens = <<>>
    /\ tokCap = 0
    /\ operatorTable = StandardTable
    /\ parsed = NoParse
    /\ loadResult = NoLoad
    /\ TransformIdle

\* the zero value of fileCache (what a Go map returns for a missing key)
ZeroFileCache ==
    [Data |-> <<>>, LastModTime |-> 0, Imports |-> <<>>, IsReachable |-> FALSE]

\* What a file holds, as far as the driver can tell: the error parseTokens
\* returns for it, the imports transformIntoModule collects from
\* it, and the revision of its text (the clock value of the write).
Source(parseErr, imports, rev) ==
    [parseErr |-> parseErr, imports |-> imports, rev |-> rev]

\* The import lists a file's text may hold (the inputs of the model).
ImportChoices(f) ==
    IF f = A THEN {<<B>>, <<B, C>>}
    ELSE IF f = B THEN {<<C>>, <<>>}
    ELSE IF f = C THEN {<<A>>, <<>>, <<D>>}
    ELSE {<<>>}

\* The texts file f may hold when written at clock value rev.
Texts(f, rev) ==
    {Source(NoParseErr, l, rev) : l \in ImportChoices(f)}
    \cup (IF Ext(f) = DotJs THEN {Source(SomeParsingError, <<>>, rev)}
          ELSE {})

Chunk(kind, file, rev, order) ==
    [kind |-> kind, file |-> file, rev |-> rev, order |-> order]

Preamble == Chunk("preamble", <<>>, 0, <<>>)

(***************************************************************************)
(* jsLoader.LoadFile, seen from the driver: src is the outcome of lex and  *)
(* parseTokens on the file's text.                                         *)
(***************************************************************************)
LoadFile(src, filePath) ==
    IF src.parseErr # NoParseErr
    THEN [data    |-> <<>>,
          imports |-> <<>>,
          err     |-> LoaderError(src.parseErr, filePath)]
    ELSE [data    |-> <<Chunk("module", filePath, src.rev, <<>>)>>,
          imports |-> src.imports,
          err     |-> NoErr]

(***************************************************************************)
(* getJsBundleFileTail                                                     *)
(***************************************************************************)
Quoted(name) == <<"'">> \o name \o <<"'">>

lookup(files, fileName) ==
    IF fileName \in DOMAIN files THEN files[fileName] ELSE ZeroFileCache

\* a map read that adds the zero value for a missing key
readFiles_inserting(files, fileName) ==
    [p \in DOMAIN files \cup {fileName} |->
        IF p \in DOMAIN files THEN files[p] ELSE ZeroFileCache]

\* cache.Files after the read cache.Files[fileName] of line 251: reading a
\* Go map leaves it as it is, also when the key is missing
readFiles(files, fileName) == files

RECURSIVE createImportTree(_, _, _)
RECURSIVE createImportTreeLoop(_, _, _, _)

\* createImportTree that places a file before its imports
createImportTree_preorder(fileName, path, acc) ==
    IF Ext(fileName) # DotJs THEN acc
    ELSE IF indexOf(path, fileName) >= 0
    THEN [acc EXCEPT !.warnings = Append(@,
             SubSeq(path, indexOf(path, fileName) + 1, Len(path))
                 \o <<fileName>>)]
    ELSE LET file  == lookup(acc.files, fileName)
             moduleName == Quoted(CreateVarNameFromPath(fileName))
             first == IF indexOf(acc.moduleOrder, moduleName) < 0
                      THEN [acc EXCEPT !.moduleOrder = Append(@, moduleName)]
                      ELSE acc
         IN  createImportTreeLoop(
                 file.Imports, 1, Append(path, fileName),
                 [first EXCEPT !.files = readFiles(@, fileName)])

\* The closure of lines 238-260.  acc = [moduleOrder, warnings, files]:
\* the closure's variable moduleOrder, the warnings printed, and
\* cache.Files as the calls so far have left it.
createImportTree(fileName, path, acc) ==
    IF Ext(fileName) # DotJs THEN acc
    ELSE IF indexOf(path, fileName) >= 0
    THEN [acc EXCEPT !.warnings = Append(@,
             SubSeq(path, indexOf(path, fileName) + 1, Len(path))
                 \o <<fileName>>)]
    ELSE LET file  == lookup(acc.files, fileName)
             after == createImportTreeLoop(
                          file.Imports, 1, Append(path, fileName),
                          [acc EXCEPT !.files = readFiles(@, fileName)])
             moduleName == Quoted(CreateVarNameFromPath(fileName))
         IN  IF indexOf(after.moduleOrder, moduleName) < 0
             THEN [after EXCEPT !.moduleOrder = Append(@, moduleName)]
             ELSE after

\* the loop of lines 252-254 over file.Imports
createImportTreeLoop(imports, k, path, acc) ==
    IF k > Len(imports) THEN acc
    ELSE createImportTreeLoop(imports, k + 1, path,
             createImportTree(imports[k], path, acc))

getJsBundleFileTail(entry, files) ==
    createImportTree(entry, <<>>,
                     [moduleOrder |-> <<>>, warnings |-> <<>>,
                      files |-> files])

(***************************************************************************)
(* addFileToBundle, addFilesToBundle                                       *)
(***************************************************************************)
\* lines 325-326: the entry exists and is marked reachable
isClaimed(files, resolvedPath) ==
    resolvedPath \in DOMAIN files /\ files[resolvedPath].IsReachable

\* a cache test that looks at the presence of the entry only
cacheHit_anyEntry(ok, cachedFile, modTime) ==
    ok

\* line 336: the cached modification time is the one on disk
cacheHit(ok, cachedFile, modTime) ==
    ok /\ cachedFile.LastModTime = modTime

\* cache.write: c.Files[fileName] = data
cacheWrite(files, fileName, data) ==
    [p \in DOMAIN files \cup {fileName} |->
        IF p = fileName THEN data ELSE files[p]]

\* saveCache that forgets to keep the entry marked reachable
saveCache_unmarked(files, resolvedPath, data, fileImports, lastModTime) ==
    [p \in DOMAIN files \cup {resolvedPath} |->
        IF p = resolvedPath
        THEN [Data |-> data, LastModTime |-> lastModTime,
              Imports |-> fileImports, IsReachable |-> FALSE]
        ELSE files[p]]

\* lines 315-322
saveCache(files, resolvedPath, data, fileImports, lastModTime) ==
    cacheWrite(files, resolvedPath,
        [Data |-> data, LastModTime |-> lastModTime,
         Imports |-> fileImports, IsReachable |-> TRUE])

\* lines 331-333
claim(files, resolvedPath) ==
    cacheWrite(files, resolvedPath,
        [ZeroFileCache EXCEPT !.IsReachable = TRUE])

\* a reset that clears the entries it marks
resetReachable_zeroed(files) ==
    [p \in DOMAIN files |-> ZeroFileCache]

\* lines 216-219
resetReachable(files) ==
    [p \in DOMAIN files |-> [files[p] EXCEPT !.IsReachable = FALSE]]

Frame(files) == [files |-> files, i |-> 0, errorCh |-> <<>>]

\* lines 280-287: the first non-nil error received, nil when there is none
RECURSIVE collect(_, _)
collect(errorCh, k) ==
    IF k > Len(errorCh) THEN NoErr
    ELSE IF errorCh[k] # NoErr THEN errorCh[k]
    ELSE collect(errorCh, k + 1)

RECURSIVE received(_, _)
\* lines 280-285: the completions the loop receives before it returns, all
\* of them or those up to the first error
received(errorCh, k) ==
    IF k > Len(errorCh) THEN Len(errorCh)
    ELSE IF errorCh[k] # NoErr THEN k
    ELSE received(errorCh, k + 1)

Top == stack[Len(stack)]

\* an invocation that returns without sending its completion
Deliver_silent(stk, err) ==
    [stk EXCEPT ![Len(stk)] = [@ EXCEPT !.i = @ + 1]]

\* errorCh <- err by the invocation the top activation is running
Deliver(stk, err) ==
    [stk EXCEPT ![Len(stk)] =
        [@ EXCEPT !.i = @ + 1, !.errorCh = Append(@, err)]]

\* copyFile's destination, lines 360-361
dstFileName(resolvedPath) ==
    CreateVarNameFromPath(resolvedPath) \o Ext(resolvedPath)

(***************************************************************************)
(* The build driver                                                        *)
(***************************************************************************)
ZeroCount == [f \in Files |-> 0]

Init ==
    /\ now = 1
    /\ disk \in {d \in [Files -> UNION {Texts(f, 1) : f \in Files}] :
                    \A f \in Files : d[f] \in Texts(f, 1)}
                \* every file exists, written at clock value 1
    /\ cacheFiles = <<>>
    /\ bundle = <<>>
    /\ stack = <<>>
    /\ pc = "init"
    /\ lastErr = NoErr
    /\ warnings = <<>>
    /\ visits = ZeroCount
    /\ claimed = ZeroCount
    /\ loads = ZeroCount
    /\ copied = {}
    /\ goodBundle = <<>>
    /\ ParserIdle
    /\ ResolverIdle

Exists(f) == disk[f].rev > 0

ModTime(f) == disk[f].rev

\* createBundle, lines 207-222, up to the call of addFilesToBundle
CreateBundle ==
    /\ pc \in {"init", "done"}
    /\ pc' = "traverse"
    /\ bundle' = <<Preamble>>
    /\ cacheFiles' = resetReachable(cacheFiles)
    /\ stack' = <<Frame(<<entryFileName>>)>>
    /\ visits' = ZeroCount
    /\ claimed' = ZeroCount
    /\ loads' = ZeroCount
    /\ UNCHANGED <<disk, now, lastErr, warnings, copied, goodBundle>>
    /\ UNCHANGED parserVars

\* addFileToBundle, lines 305-369: one invocation, up to its return or to
\* its call of addFilesToBundle on the file's imports
AddFileToBundle ==
    /\ pc = "traverse"
    /\ Top.i < Len(Top.files)
    /\ LET resolvedPath == Top.files[Top.i + 1]
           ok           == resolvedPath \in DOMAIN cacheFiles
           cachedFile   == lookup(cacheFiles, resolvedPath)
           lastModTime  == ModTime(resolvedPath)
           loaded       == LoadFile(disk[resolvedPath], resolvedPath)
           hit          == cacheHit(ok, cachedFile, lastModTime)
           isJs         == Ext(resolvedPath) = DotJs
           data         == IF hit THEN cachedFile.Data
                           ELSE IF isJs THEN loaded.data ELSE <<>>
           fileImports  == IF hit THEN cachedFile.Imports
                           ELSE IF isJs THEN loaded.imports ELSE <<>>
           claimedFiles == claim(cacheFiles, resolvedPath)
       IN  /\ visits' = [visits EXCEPT ![resolvedPath] = @ + 1]
           /\ IF ~Exists(resolvedPath)
              THEN \* lines 308-312
                   /\ stack' = Deliver(stack, fileError(resolvedPath))
                   /\ UNCHANGED <<cacheFiles, bundle, claimed, loads, copied>>
              ELSE IF isClaimed(cacheFiles, resolvedPath)
              THEN \* lines 326-330
                   /\ stack' = Deliver(stack, NoErr)
                   /\ UNCHANGED <<cacheFiles, bundle, claimed, loads, copied>>
              ELSE /\ claimed' = [claimed EXCEPT ![resolvedPath] = @ + 1]
                   /\ loads' = IF ~hit /\ isJs
                               THEN [loads EXCEPT ![resolvedPath] = @ + 1]
                               ELSE loads
                   /\ copied' = IF ~hit /\ ~isJs
                                THEN copied \cup {dstFileName(resolvedPath)}
                                ELSE copied
                   /\ IF ~hit /\ isJs /\ loaded.err # NoErr
                      THEN \* lines 353-357
                           /\ cacheFiles' = saveCache(claimedFiles,
                                  resolvedPath, <<>>, <<>>, lastModTime)
                           /\ stack' = Deliver(stack, loaded.err)
                           /\ UNCHANGED bundle
                      ELSE \* lines 366-369
                           /\ bundle' = bundle \o data
                           /\ cacheFiles' = saveCache(claimedFiles,
                                  resolvedPath, data, fileImports, lastModTime)
                           /\ stack' = Append(stack, Frame(fileImports))
    /\ UNCHANGED <<disk, now, pc, lastErr, warnings, goodBundle>>
    /\ UNCHANGED parserVars

\* addFilesToBundle returns to addFileToBundle (lines 280-287), which sends
\* the result on its own level's channel (line 371)
AddFilesToBundleReturn ==
    /\ pc = "traverse"
    /\ Len(stack) > 1
    /\ Top.i = Len(Top.files)
    /\ stack' = Deliver(SubSeq(stack, 1, Len(stack) - 1),
                        collect(Top.errorCh, 1))
    /\ UNCHANGED <<disk, now, cacheFiles, bundle, pc, lastErr, warnings,
                   visits, claimed, loads, copied, goodBundle>>
    /\ UNCHANGED parserVars

TailChunk(order) == Chunk("tail", <<>>, 0, order)

\* createBundle, lines 222-231, from the return of addFilesToBundle
CreateBundleFinish ==
    /\ pc = "traverse"
    /\ Len(stack) = 1
    /\ Top.i = Len(Top.files)
    /\ LET err  == collect(Top.errorCh, 1)
           tail == getJsBundleFileTail(entryFileName, cacheFiles)
       IN  /\ bundle' = Append(bundle, TailChunk(tail.moduleOrder))
           /\ warnings' = tail.warnings
           /\ lastErr' = err
           /\ goodBundle' = IF err = NoErr THEN bundle' ELSE goodBundle
           /\ cacheFiles' = tail.files
    /\ stack' = <<>>
    /\ pc' = "done"
    /\ UNCHANGED <<disk, now, visits, claimed, loads, copied>>
    /\ UNCHANGED parserVars

(***************************************************************************)
(* The file system between builds                                          *)
(***************************************************************************)
\* a file is created or rewritten: new text, new modification time
WriteFile ==
    /\ pc \in {"init", "done"}
    /\ now < MaxTime
    /\ \E f \in Files : \E src \in Texts(f, now + 1) :
          disk' = [disk EXCEPT ![f] = src]
    /\ now' = now + 1
    /\ UNCHANGED <<cacheFiles, bundle, stack, pc, lastErr, warnings,
                   visits, claimed, loads, copied, goodBundle>>
    /\ UNCHANGED parserVars

\* a file is deleted
RemoveFile ==
    /\ pc \in {"init", "done"}
    /\ \E f \in Files :
          /\ Exists(f)
          /\ disk' = [disk EXCEPT ![f] = Source(NoParseErr, <<>>, 0)]
    /\ UNCHANGED <<now, cacheFiles, bundle, stack, pc, lastErr, warnings,
                   visits, claimed, loads, copied, goodBundle>>
    /\ UNCHANGED parserVars

Next ==
    \/ CreateBundle
    \/ AddFileToBundle
    \/ AddFilesToBundleReturn
    \/ CreateBundleFinish
    \/ WriteFile
    \/ RemoveFile

Spec == Init /\ [][Next]_vars

(***************************************************************************)
(* Claims about the build driver                                           *)
(***************************************************************************)
\* the module fragments of file f written to bundle.js so far
Fragments(f) ==
    Cardinality({k \in DOMAIN bundle :
                    bundle[k].kind = "module" /\ bundle[k].file = f})

\* C1: within one build, at most one addFileToBundle invocation per file
\* passes the claim step; from then on the entry stays marked reachable, so
\* every later invocation for the file returns at the claim step, and the
\* file is loaded and written at most once.
C1_AtMostOneClaimPerBuild ==
    \A f \in Files :
        /\ claimed[f] <= 1
        /\ loads[f] <= claimed[f]
        /\ Fragments(f) <= claimed[f]
        /\ (claimed[f] = 1 => isClaimed(cacheFiles, f))

\* a file was visited again after it had been claimed
C1_Witness ==
    \E f \in Files : visits[f] >= 2 /\ claimed[f] = 1 /\ loads[f] = 1

\* the step of addFileToBundle in which file f passes the claim step
Claims(f) == claimed'[f] = claimed[f] + 1

\* C2: a claimed file whose cache entry has the on-disk modification time is
\* not passed to LoadFile, and its cached output and dependency list are
\* reused (written to the bundle, kept in the entry); otherwise the file is
\* reprocessed and the entry's output and dependency list become those of
\* the text now on disk (empty when it does not parse).
C2_CacheHitReusesMissReloads ==
    [][\A f \in Files : Claims(f) =>
          LET old == lookup(cacheFiles, f)
              new == cacheFiles'[f]
          IN  IF f \in DOMAIN cacheFiles /\ old.LastModTime = ModTime(f)
              THEN /\ loads'[f] = loads[f]
                   /\ new.Data = old.Data
                   /\ new.Imports = old.Imports
                   /\ bundle' = bundle \o old.Data
              ELSE IF Ext(f) = DotJs
              THEN /\ loads'[f] = loads[f] + 1
                   /\ new.LastModTime = ModTime(f)
                   /\ IF disk[f].parseErr # NoParseErr
                      THEN new.Data = <<>> /\ new.Imports = <<>>
                      ELSE /\ new.Data =
                                <<Chunk("module", f, disk[f].rev, <<>>)>>
                           /\ new.Imports = disk[f].imports
              ELSE /\ loads'[f] = loads[f]
                   /\ dstFileName(f) \in copied'
                   /\ new.Data = <<>> /\ new.Imports = <<>>
      ]_vars

\* in a build after a successful one, one file was reused from the cache
\* and another, rewritten since, was loaded again
C2_Witness ==
    /\ pc = "traverse"
    /\ \E f, g \in Files :
          /\ Ext(f) = DotJs /\ claimed[f] = 1 /\ loads[f] = 0
          /\ cacheFiles[f].Data # <<>>
          /\ claimed[g] = 1 /\ loads[g] = 1
          /\ \E k \in DOMAIN goodBundle :
                goodBundle[k] = Chunk("module", g, 1, <<>>)
          /\ cacheFiles[g].Data = <<Chunk("module", g, 2, <<>>)>>

\* the step in which createBundle ends
BuildEnds == pc = "traverse" /\ pc' = "done"

\* file f does not exist or does not parse in its on-disk version
Fails(f) == ~Exists(f) \/ (Ext(f) = DotJs /\ disk[f].parseErr # NoParseErr)

\* C3: in every build, if a file the traversal visits does not exist or
\* fails to parse in its on-disk version, the build ends with an error.
C3_FailingFileFailsBuild ==
    [][BuildEnds =>
          ((\E f \in Files : visits[f] > 0 /\ Fails(f)) => lastErr' # NoErr)
      ]_vars

\* C4: after a failed build, bundle.js is what the previous successful
\* build produced.
C4_FailedBuildKeepsArtifact ==
    (pc = "done" /\ lastErr # NoErr /\ goodBundle # <<>>)
        => bundle = goodBundle

CycleDisk ==
    /\ disk[A] = Source(NoParseErr, <<B>>, disk[A].rev) /\ Exists(A)
    /\ disk[B] = Source(NoParseErr, <<C>>, disk[B].rev) /\ Exists(B)
    /\ disk[C] = Source(NoParseErr, <<A>>, disk[C].rev) /\ Exists(C)

CycleBuilt ==
    /\ pc = "done"
    /\ lastErr = NoErr
    /\ warnings = << <<A, B, C, A>> >>
    /\ bundle[Len(bundle)] =
          TailChunk(<<Quoted(CreateVarNameFromPath(C)),
                      Quoted(CreateVarNameFromPath(B)),
                      Quoted(CreateVarNameFromPath(A))>>)

\* the guards of AddFileToBundle, AddFilesToBundleReturn and
\* CreateBundleFinish, the steps inside a build, whose bodies only assign: an
\* invocation is still to be launched, or the level has launched all of
\* its invocations and returns (to its caller, or to createBundle)
CanStep ==
    /\ stack # <<>>
    /\ \/ Top.i < Len(Top.files)
       \/ Len(stack) > 1 /\ Top.i = Len(Top.files)
       \/ Len(stack) = 1 /\ Top.i = Len(Top.files)

RECURSIVE Pending(_, _)
\* the invocations of addFileToBundle launched and not yet returned
Pending(stk, k) ==
    IF k > Len(stk) THEN 0
    ELSE (Len(stk[k].files) - stk[k].i) + Pending(stk, k + 1)

\* a bound on the work left in the traversal: it is a natural number
Variant ==
    2 * Pending(stack, 1) + Len(stack)
      + (2 * Cardinality(Files) + 2)
          * Cardinality({f \in Files : claimed[f] = 0})

\* C6: a build of the cycle a.js -> b.js -> c.js -> a.js terminates (a step
\* is always possible until it has ended, and every step decreases the work
\* left), and it ends without an error, with one warning that names the
\* cycle and with the invocation order c.js, b.js, a.js.
C6_CycleBuildEnds ==
    /\ [](pc = "traverse" /\ CycleDisk => Variant >= 0 /\ CanStep)
    /\ [][pc = "traverse" /\ CycleDisk =>
             /\ Variant' < Variant
             /\ (pc' = "done" => CycleBuilt')
         ]_vars

C6_Witness == CycleDisk /\ CycleBuilt

\* C7: when a build starts no entry is reachable, and when it has ended an
\* entry is reachable exactly if its file was visited by the traversal.
C7_ReachableIffVisited ==
    /\ (pc = "traverse" /\ visits = ZeroCount) =>
          \A f \in DOMAIN cacheFiles : ~cacheFiles[f].IsReachable
    /\ pc = "done" =>
          \A f \in DOMAIN cacheFiles :
              cacheFiles[f].IsReachable <=> visits[f] > 0

(***************************************************************************)
(* getJsBundleFileTail on the dependency graphs a cache can record         *)
(***************************************************************************)
BsC == <<"b", "/", "c", ".", "j", "s">>
BuC == <<"b", "_", "c", ".", "j", "s">>

\* the paths of the graphs: a.js, b/c.js, b_c.js and the asset d.css
TailFiles == {A, BsC, BuC, D}

\* Bound: the longest dependency list of a graph.
MaxTailImports == 2

RECURSIVE SeqsUpTo(_, _)
\* the sequences over S of length at most n
SeqsUpTo(S, n) ==
    IF n = 0 THEN {<<>>}
    ELSE LET shorter == SeqsUpTo(S, n - 1)
         IN  shorter \cup {Append(q, x) : q \in shorter, x \in S}

\* the entry a finished build leaves for a file with these imports
BuiltEntry(f, imports) ==
    [Data |-> IF Ext(f) = DotJs THEN <<Chunk("module", f, 1, <<>>)>>
              ELSE <<>>,
     LastModTime |-> 1, Imports |-> imports, IsReachable |-> TRUE]

\* the caches a build over files can leave: every source file with some
\* dependency list, every asset with none
TailCaches(files) ==
    {[f \in files |->
         BuiltEntry(f, IF Ext(f) = DotJs THEN l[f] ELSE <<>>)] :
       l \in [{f \in files : Ext(f) = DotJs} ->
                 SeqsUpTo(files, MaxTailImports)]}

TailInit ==
    /\ cacheFiles \in TailCaches(TailFiles)
    /\ pc = "finalize"
    /\ now = 1
    /\ disk = [f \in Files |-> Source(NoParseErr, <<>>, 1)]
    /\ bundle = <<Preamble>>
    /\ stack = <<>>
    /\ lastErr = NoErr
    /\ warnings = <<>>
    /\ visits = ZeroCount
    /\ claimed = ZeroCount
    /\ loads = ZeroCount
    /\ copied = {}
    /\ goodBundle = <<>>
    /\ ParserIdle
    /\ ResolverIdle

\* createBundle line 223: sf.write(getJsBundleFileTail(entryFileName, cache))
Finalize ==
    /\ pc = "finalize"
    /\ LET tail == getJsBundleFileTail(entryFileName, cacheFiles)
       IN  /\ bundle' = Append(bundle, TailChunk(tail.moduleOrder))
           /\ warnings' = tail.warnings
           /\ cacheFiles' = tail.files
    /\ pc' = "finalized"
    /\ UNCHANGED <<disk, now, stack, lastErr, visits, claimed,
                   loads, copied, goodBundle>>
    /\ UNCHANGED parserVars

TailNext == Finalize

TailSpec == TailInit /\ [][TailNext]_vars

\* the source files in the dependency list the cache records for f
JsDeps(f) ==
    {g \in DOMAIN cacheFiles :
        /\ Ext(g) = DotJs
        /\ \E k \in DOMAIN lookup(cacheFiles, f).Imports :
              lookup(cacheFiles, f).Imports[k] = g}

RECURSIVE Closure(_)
\* S and the source files that can be reached from S
Closure(S) ==
    LET more == S \cup UNION {JsDeps(f) : f \in S}
    IN  IF more = S THEN S ELSE Closure(more)

\* the source files reachable from the entry file
ReachableJs == Closure({entryFileName})

Acyclic == \A f \in ReachableJs : f \notin Closure(JsDeps(f))

Count(order, x) == Cardinality({k \in DOMAIN order : order[k] = x})

ModuleName(f) == Quoted(CreateVarNameFromPath(f))

\* C5: for an acyclic dependency graph, the invocation order holds every
\* source file reachable from the entry file exactly once (as many places
\* as files, each file's module name in one of them), and a file's place is
\* after the places of the files in its dependency list.
C5_OrderCompleteAndTopological ==
    (pc = "finalized" /\ Acyclic) =>
        LET order == bundle[Len(bundle)].order
        IN  /\ Len(order) = Cardinality(ReachableJs)
            /\ \A f \in ReachableJs : Count(order, ModuleName(f)) = 1
            /\ \A f \in ReachableJs : \A g \in JsDeps(f) :
                  indexOf(order, ModuleName(g)) < indexOf(order, ModuleName(f))

\* the reachable source files have pairwise distinct module names
DistinctNames ==
    \A f, g \in ReachableJs : ModuleName(f) = ModuleName(g) => f = g

\* what holds of the order when no two reachable files share a module name
OrderOfDistinctNames ==
    (pc = "finalized" /\ Acyclic /\ DistinctNames) =>
        LET order == bundle[Len(bundle)].order
        IN  /\ Len(order) = Cardinality(ReachableJs)
            /\ \A f \in ReachableJs : Count(order, ModuleName(f)) = 1
            /\ \A f \in ReachableJs : \A g \in JsDeps(f) :
                  indexOf(order, ModuleName(g)) < indexOf(order, ModuleName(f))

(***************************************************************************)
(* The parser of jsLoader.go, on the token types                           *)
(*     tNAME tNUMBER tPLUS tMULT tIN tASSIGN tSEMI tNEWLINE                *)
(*     tCURLY_LEFT tCURLY_RIGHT tPAREN_RIGHT tEND_OF_INPUT.                *)
(* An accept of a token type outside this set fails and backtracks to      *)
(* where it started, so the branches of the code that such an accept       *)
(* guards are left out.  The parsing functions take the parserState p =    *)
(* [index, tok, globalFlagIsInsideForIn] and return the state they leave,  *)
(* the node they return and the panic they raise, if any.                  *)
(***************************************************************************)
Lexeme(tType) ==
    CASE tType = "tNAME"         -> "a"
      [] tType = "tNUMBER"       -> "1"
      [] tType = "tPLUS"         -> "+"
      [] tType = "tMULT"         -> "*"
      [] tType = "tIN"           -> "in"
      [] tType = "tASSIGN"       -> "="
      [] tType = "tSEMI"         -> ";"
      [] tType = "tNEWLINE"      -> "\n"
      [] tType = "tCURLY_LEFT"   -> "{"
      [] tType = "tCURLY_RIGHT"  -> "}"
      [] tType = "tPAREN_RIGHT"  -> ")"
      [] tType = "tEND_OF_INPUT" -> ""

\* The tokens of a text given as the sequence of its lexemes' types: the
\* text's tokens, each with the line and column it starts at, followed by
\* the tEND_OF_INPUT token on which parseProgram's loop ends.
lex(src) ==
    LET types == Append(src, "tEND_OF_INPUT")
        NewlinesBefore(i) == {k \in 1..(i - 1) : types[k] = "tNEWLINE"}
        LastNewline(i) ==
            IF NewlinesBefore(i) = {} THEN 0
            ELSE CHOOSE k \in NewlinesBefore(i) :
                     \A m \in NewlinesBefore(i) : m <= k
    IN  [i \in DOMAIN types |->
            [tType  |-> types[i],
             lexeme |-> Lexeme(types[i]),
             line   |-> 1 + Cardinality(NewlinesBefore(i)),
             column |-> i - LastNewline(i)]]

\* p.sourceTokens[i]
Tok(i) == sourceTokens[i + 1]

makeNode(t, tok, children) ==
    [t |-> t, value |-> tok.lexeme, children |-> children, flags |-> 0,
     pos |-> <<tok.line, tok.column>>]

\* makeNode(t, "", children...)
makeList(t, children) ==
    [t |-> t, value |-> "", children |-> children, flags |-> 0,
     pos |-> <<0, 0>>]

Ret(p, node) == [p |-> p, node |-> node, panic |-> NoPanic]

Raise(p, panic) == [p |-> p, node |-> ZeroNode, panic |-> panic]

next(p) ==
    [p EXCEPT !.index = p.index + 1,
              !.tok = IF p.index + 1 < Len(sourceTokens)
                      THEN Tok(p.index + 1) ELSE p.tok]

backtrack(p, backIndex) ==
    [p EXCEPT !.index = backIndex, !.tok = Tok(backIndex)]

RECURSIVE skipNewlines(_)
\* accept's loop: for p.tok.tType == tNEWLINE { next(p) }
skipNewlines(p) ==
    IF p.tok.tType = "tNEWLINE" THEN skipNewlines(next(p)) ELSE p

RECURSIVE getNoNewlineFrom(_)
getNoNewlineFrom(i) ==
    IF Tok(i).tType = "tNEWLINE" THEN getNoNewlineFrom(i + 1) ELSE Tok(i)

getNoNewline(p) == getNoNewlineFrom(p.index)

test(p, tTypes) == getNoNewline(p).tType \in tTypes

\* accept(p, tTypes...) with a non-nil tTypes
accept(p, tTypes) ==
    LET q == skipNewlines(p)
    IN  IF q.tok.tType \in tTypes
        THEN [p |-> next(q), ok |-> TRUE]
        ELSE [p |-> backtrack(q, p.index), ok |-> FALSE]

\* accept(p): any token
acceptAny(p) == next(skipNewlines(p))

\* getToken(p); getLexeme(p) is its lexeme
getToken(p) == Tok(p.index - 1)

\* the operand of checkASI's panic: the slice expression
\* p.sourceTokens[p.index-5 : p.index+5] panics with a runtime error unless
\* 0 <= p.index-5 and p.index+5 <= cap(p.sourceTokens); the elements past
\* len(p.sourceTokens) are zero tokens.  A runtime error carries no token:
\* tok records the token checkASI was reporting.
unexpectedToken(p) ==
    IF p.index - 5 < 0 \/ p.index + 5 > tokCap
    THEN [kind |-> "runtimeError", tok |-> p.tok, context |-> <<>>]
    ELSE parsingError("p_UNEXPECTED_TOKEN", p.tok,
             [k \in 1..10 |->
                 IF p.index - 5 + k <= Len(sourceTokens)
                 THEN sourceTokens[p.index - 5 + k] ELSE ZeroToken])

checkASI(p, tType) ==
    IF tType = "tSEMI" /\ p.tok.tType = "tNEWLINE"
    THEN [p |-> next(p), panic |-> NoPanic]
    ELSE IF tType = "tSEMI"
            /\ p.tok.tType \in {"tCURLY_RIGHT", "tEND_OF_INPUT"}
    THEN [p |-> p, panic |-> NoPanic]
    ELSE [p |-> p, panic |-> unexpectedToken(p)]

expect(p, tType) ==
    LET a == accept(p, {tType})
    IN  IF a.ok THEN [p |-> a.p, panic |-> NoPanic]
        ELSE checkASI(a.p, tType)

\* isValidPropertyName on the lexemes of Lexeme: letters and digits after
\* a first letter
isValidPropertyName(name) == name \in {"a", "in"}

\* parseObjectLiteral: without tCOMMA the loop body runs at most once
parseObjectLiteral(p) ==
    LET Closing(key, e) ==
            [p |-> e.p,
             node |-> makeList("g_OBJECT_LITERAL",
                          <<makeList("g_OBJECT_PROPERTY", <<key.node>>)>>),
             panic |-> e.panic]
        Property(key) == Closing(key, expect(key.p, "tCURLY_RIGHT"))
        ValidName(any) ==
            Ret(any, makeNode("g_VALID_PROPERTY_NAME", getToken(any), <<>>))
        Key(q, name) ==
            IF name.ok
            THEN Ret(name.p, makeNode("g_NAME", getToken(name.p), <<>>))
            ELSE IF \/ isValidPropertyName(getNoNewline(q).lexeme)
                    \/ test(q, {"tNUMBER"})
            THEN ValidName(acceptAny(q))
            ELSE Ret(q, ZeroNode)
        Body(closed) ==
            IF closed.ok
            THEN Ret(closed.p, makeList("g_OBJECT_LITERAL", <<>>))
            ELSE Property(Key(closed.p, accept(closed.p, {"tNAME"})))
    IN  Body(accept(p, {"tCURLY_RIGHT"}))

parseAtom(p) ==
    LET Default(asi) == [p |-> asi.p, node |-> ZeroNode, panic |-> asi.panic]
        Number(number) ==
            IF number.ok
            THEN Ret(number.p,
                     makeNode("g_NUMBER_LITERAL", getToken(number.p), <<>>))
            ELSE Default(checkASI(p, "tSEMI"))
        Name(name) ==
            IF name.ok
            THEN \* parseLambdaOrName
                 Ret(name.p, makeNode("g_NAME", getToken(name.p), <<>>))
            ELSE Number(accept(p, {"tNUMBER"}))
        Curly(curly) ==
            IF curly.ok THEN parseObjectLiteral(curly.p)
            ELSE Name(accept(p, {"tNAME"}))
    IN  Curly(accept(p, {"tCURLY_LEFT"}))

parseConstructorCall(p) == parseAtom(p)

\* parseFunctionCallOrMember(p, false)
parseFunctionCallOrMember(p) == parseConstructorCall(p)

parsePostfixUnary(p) == parseFunctionCallOrMember(p)

RECURSIVE parsePrefixUnary(_)
parsePrefixUnary(p) ==
    LET Prefix(a, r) ==
            [r EXCEPT !.node =
                IF r.panic = NoPanic
                THEN makeNode("g_UNARY_PREFIX_EXPRESSION", getToken(a.p),
                              <<r.node>>)
                ELSE ZeroNode]
        Operator(a) ==
            IF a.ok THEN Prefix(a, parsePrefixUnary(a.p))
            ELSE parsePostfixUnary(p)
    IN  Operator(accept(p, {"tPLUS"}))

\* parseBinary's stacks: s = [opStack, outputStack, root]
addNode(s, t) ==
    LET n     == Len(s.outputStack)
        right == s.outputStack[n]
        left  == s.outputStack[n - 1]
        nn    == makeNode("g_EXPRESSION", t, <<left, right>>)
    IN  [s EXCEPT !.outputStack = Append(SubSeq(s.outputStack, 1, n - 2), nn),
                  !.root = <<nn>>]

\* the comparison without its equal-precedence case
reduces_higherOnly(opFromStack, op) ==
    opFromStack.precedence > op.precedence

\* the comparison that orders two operators wrongly
reduces_reversed(opFromStack, op) ==
    \/ opFromStack.precedence < op.precedence
    \/ (opFromStack.precedence = op.precedence /\ ~op.isRightAssociative)

\* line 1034
reduces(opFromStack, op) ==
    \/ opFromStack.precedence > op.precedence
    \/ (opFromStack.precedence = op.precedence /\ ~op.isRightAssociative)

RECURSIVE reduceLoop(_, _)
\* the inner loop of parseBinary
reduceLoop(s, op) ==
    IF Len(s.opStack) > 0
    THEN LET opToken     == s.opStack[Len(s.opStack)]
             opFromStack == operatorTable[opToken.tType]
         IN  IF reduces(opFromStack, op)
             THEN reduceLoop(
                      [addNode(s, opToken) EXCEPT !.opStack =
                          SubSeq(s.opStack, 1, Len(s.opStack) - 1)],
                      op)
             ELSE s
    ELSE s

RECURSIVE drain(_, _)
\* for i := len(opStack) - 1; i >= 0; i-- { addNode(opStack[i]) }
drain(s, i) ==
    IF i >= 1 THEN drain(addNode(s, s.opStack[i]), i - 1) ELSE s

RECURSIVE parseBinaryLoop(_, _)
parseBinaryLoop(p, s) ==
    LET Result(q, end) ==
            Ret(q, IF end.root # <<>> THEN end.root[1]
                   ELSE end.outputStack[Len(end.outputStack)])
        Push(q, reduced) ==
            parseBinaryLoop(next(q),
                            [reduced EXCEPT !.opStack = Append(@, q.tok)])
        Operator(q, s1) ==
            IF \/ q.tok.tType \notin DOMAIN operatorTable
               \/ (q.globalFlagIsInsideForIn /\ q.tok.tType = "tIN")
            THEN Result(q, drain(s1, Len(s1.opStack)))
            ELSE Push(q, reduceLoop(s1, operatorTable[q.tok.tType]))
        Operand(u) ==
            IF u.panic # NoPanic THEN u
            ELSE Operator(u.p, [s EXCEPT !.outputStack = Append(@, u.node)])
    IN  Operand(parsePrefixUnary(p))

parseBinary(p) ==
    parseBinaryLoop(p, [opStack |-> <<>>, outputStack |-> <<>>, root |-> <<>>])

parseConditional(p) == parseBinary(p)

RECURSIVE parseAssignment(_)
parseAssignment(p) ==
    LET Assignment(left, a, right) ==
            [right EXCEPT !.node =
                IF right.panic = NoPanic
                THEN makeNode("g_EXPRESSION", getToken(a.p),
                              <<left.node, right.node>>)
                ELSE ZeroNode]
        Operator(left, a) ==
            IF a.ok THEN Assignment(left, a, parseAssignment(a.p))
            ELSE left
        Left(left) ==
            IF left.panic # NoPanic THEN left
            ELSE Operator(left, accept(left.p, {"tASSIGN"}))
    IN  Left(parseConditional(p))

parseYield(p) == parseAssignment(p)

parseSequence(p) == parseYield(p)

parseExpression(p) == parseSequence(p)

parseExpressionStatement(p) ==
    LET Terminated(e, semi) ==
            [p |-> semi.p,
             node |-> IF semi.panic = NoPanic
                      THEN makeList("g_EXPRESSION_STATEMENT", <<e.node>>)
                      ELSE ZeroNode,
             panic |-> semi.panic]
        Expression(e) ==
            IF e.panic # NoPanic THEN e
            ELSE Terminated(e, expect(e.p, "tSEMI"))
    IN  Expression(parseExpression(p))

\* A loop `for !accept(p, end) { ... parseStatement(p) }` whose body returns
\* with the parser state it was entered with repeats that iteration for
\* ever: parseStatement is a function of the parser state.
Diverges == [kind |-> "loop", tok |-> ZeroToken, context |-> <<>>]

RECURSIVE parseStatement(_)
RECURSIVE statementLoop(_, _, _)

\* the loops of parseBlockStatement (end = tCURLY_RIGHT) and of
\* parseProgram (end = tEND_OF_INPUT); the node is the list of statements
statementLoop(p, end, statements) ==
    LET Body(a, r) ==
            IF r.panic # NoPanic THEN r
            ELSE IF r.p = a.p THEN Raise(r.p, Diverges)
            ELSE statementLoop(r.p, end, Append(statements, r.node))
        Condition(a) ==
            IF a.ok THEN Ret(a.p, makeList("statements", statements))
            ELSE Body(a, parseStatement(a.p))
    IN  Condition(accept(p, {end}))

parseBlockStatement(p) ==
    LET Block(r) ==
            IF r.panic # NoPanic THEN r
            ELSE Ret(r.p, makeList("g_BLOCK_STATEMENT", r.node.children))
    IN  Block(statementLoop(p, "tCURLY_RIGHT", <<>>))

\* the marker test of lines 590-596 backtracks to startPos
parseStatement(p) ==
    LET Semi(semi) ==
            IF semi.ok
            THEN Ret(semi.p,
                     makeNode("g_EMPTY_STATEMENT", getToken(semi.p), <<>>))
            ELSE parseExpressionStatement(p)
        Curly(curly) ==
            IF curly.ok THEN parseBlockStatement(curly.p)
            ELSE Semi(accept(p, {"tSEMI"}))
    IN  Curly(accept(p, {"tCURLY_LEFT"}))

\* parseProgram with its deferred recover: [program, err] are the results,
\* returned tells whether it returns at all, panic what was raised
parseProgram(p) ==
    LET Recovered(r) ==
            [program  |-> IF r.panic = NoPanic
                          THEN makeList("g_PROGRAM_STATEMENT", r.node.children)
                          ELSE ZeroNode,
             err      |-> IF r.panic.kind = "p_UNEXPECTED_TOKEN"
                          THEN r.panic ELSE NoParseErr,
             returned |-> r.panic # Diverges,
             panic    |-> r.panic]
    IN  Recovered(statementLoop(p, "tEND_OF_INPUT", <<>>))

parseTokens ==
    parseProgram([index |-> 0, tok |-> Tok(0),
                  globalFlagIsInsideForIn |-> FALSE])


(***************************************************************************)
(* ParseSpec: LoadFile on a text of up to MaxStatements statements `a;`    *)
(* followed by up to MaxTail arbitrary tokens.                             *)
(***************************************************************************)
MaxStatements == 3

MaxTail == 3

\* Bound: cap(tokens) - len(tokens) of the slice lex returns
MaxSpare == 3

TailTypes ==
    {"tNAME", "tNUMBER", "tPLUS", "tMULT", "tASSIGN", "tSEMI", "tNEWLINE",
     "tCURLY_LEFT", "tCURLY_RIGHT", "tPAREN_RIGHT"}

RECURSIVE Statements(_)
Statements(k) ==
    IF k = 0 THEN <<>> ELSE <<"tNAME", "tSEMI">> \o Statements(k - 1)

\* the driver's variables while the parser is modelled
DriverIdle ==
    /\ now = 1
    /\ disk = [f \in Files |-> Source(NoParseErr, <<>>, 1)]
    /\ cacheFiles = <<>>
    /\ bundle = <<>>
    /\ stack = <<>>
    /\ lastErr = NoErr
    /\ warnings = <<>>
    /\ visits = ZeroCount
    /\ claimed = ZeroCount
    /\ loads = ZeroCount
    /\ copied = {}
    /\ goodBundle = <<>>

ParseInit ==
    /\ \E k \in 0..MaxStatements, tail \in SeqsUpTo(TailTypes, MaxTail) :
          sourceTokens = lex(Statements(k) \o tail)
    /\ tokCap \in Len(sourceTokens)..(Len(sourceTokens) + MaxSpare)
    /\ operatorTable = StandardTable
    /\ parsed = NoParse
    /\ loadResult = NoLoad
    /\ pc = "load"
    /\ DriverIdle
    /\ ResolverIdle
    /\ TransformIdle

\* LoadFile(src, entryFileName) from the tokens on: parseTokens, and when it
\* returns, the rest of LoadFile.  The texts of the model hold no import
\* statement, so transformIntoModule collects no imports.
Load ==
    /\ pc = "load"
    /\ parsed' = parseTokens
    /\ IF parsed'.returned
       THEN /\ loadResult' =
                 LoadFile(Source(parsed'.err, <<>>, 1), entryFileName)
            /\ pc' = "loaded"
       ELSE /\ loadResult' = loadResult
            /\ pc' = "hung"
    /\ UNCHANGED <<sourceTokens, tokCap, operatorTable>>
    /\ UNCHANGED resolverVars
    /\ UNCHANGED transformVars
    /\ UNCHANGED driverVars

ParseNext == Load

ParseSpec == ParseInit /\ [][ParseNext]_vars

\* checkASI reached its panic statement
MetUnexpectedToken == parsed.panic.kind \in {"p_UNEXPECTED_TOKEN", "runtimeError"}

\* C8: whenever the parser meets an unexpected token, wherever it stands in
\* the token sequence, parseTokens returns a parsingError carrying that
\* token with its line and column, and LoadFile returns that error wrapped
\* in a LoaderError and no output bytes.
C8_UnexpectedTokenIsReported ==
    (pc # "load" /\ MetUnexpectedToken)
        => /\ pc = "loaded"
           /\ parsed.err.kind = "p_UNEXPECTED_TOKEN"
           /\ parsed.err.tok = parsed.panic.tok
           /\ parsed.program = ZeroNode
           /\ loadResult.err = LoaderError(parsed.err, entryFileName)
           /\ loadResult.data = <<>>

\* the tokens before position i (1-based) are complete statements `a;`
AfterStatements(i) ==
    /\ i % 2 = 1
    /\ \A j \in 1..(i - 1) :
          sourceTokens[j].tType = IF j % 2 = 1 THEN "tNAME" ELSE "tSEMI"

\* a statement starts with `{` and no `}` follows before the end of input
UnclosedBlock ==
    \E i \in DOMAIN sourceTokens :
        /\ AfterStatements(i)
        /\ sourceTokens[i].tType = "tCURLY_LEFT"
        /\ \A j \in DOMAIN sourceTokens :
              j > i => sourceTokens[j].tType # "tCURLY_RIGHT"

\* a statement at top level starts with `}`
StrayClose ==
    \E i \in DOMAIN sourceTokens :
        /\ AfterStatements(i)
        /\ sourceTokens[i].tType = "tCURLY_RIGHT"

\* C9: for a text with an unmatched brace (a block opened and never
\* closed, or a stray `}` at top level) parsing terminates with a parse
\* error that carries a token of the text with its line and column, and
\* LoadFile returns no fragment.
C9_UnmatchedBraceIsReported ==
    (pc # "load" /\ (UnclosedBlock \/ StrayClose))
        => /\ pc = "loaded"
           /\ parsed.err.kind = "p_UNEXPECTED_TOKEN"
           /\ \E i \in DOMAIN sourceTokens : parsed.err.tok = sourceTokens[i]
           /\ loadResult.err = LoaderError(parsed.err, entryFileName)
           /\ loadResult.data = <<>>

(***************************************************************************)
(* BinarySpec: LoadFile on one expression statement a op a op ... a, under *)
(* every operator table over OpTypes with precedences 1..MaxPrecedence.    *)
(***************************************************************************)
MaxOps == 3

MaxPrecedence == 3

OpTypes == {"tPLUS", "tMULT", "tIN"}

OperatorTables ==
    [OpTypes -> [precedence : 1..MaxPrecedence, isRightAssociative : BOOLEAN]]

RECURSIVE Operands(_, _)
\* a op[k] a op[k+1] ... a
Operands(ops, k) ==
    IF k > Len(ops) THEN <<"tNAME">>
    ELSE <<"tNAME", ops[k]>> \o Operands(ops, k + 1)

BinaryInit ==
    /\ \E ops \in SeqsUpTo(OpTypes, MaxOps) :
          sourceTokens = lex(Operands(ops, 1))
    /\ tokCap = Len(sourceTokens)
    /\ operatorTable \in OperatorTables
    /\ parsed = NoParse
    /\ loadResult = NoLoad
    /\ pc = "load"
    /\ DriverIdle
    /\ ResolverIdle
    /\ TransformIdle

BinarySpec == BinaryInit /\ [][ParseNext]_vars

\* the number of operators of the expression
NumOps == (Len(sourceTokens) - 2) \div 2

\* the k-th operator's token and precedence
OpTok(k) == sourceTokens[2 * k]

Prec(k) == operatorTable[OpTok(k).tType].precedence

RECURSIVE Nodes(_)
\* the nodes of a subtree
Nodes(n) == {n} \cup UNION {Nodes(n.children[k]) : k \in DOMAIN n.children}

\* the expression the statement holds
Expr == parsed.program.children[1].children[1]

IsOpNode(n, k) ==
    /\ n.t = "g_EXPRESSION"
    /\ n.value = OpTok(k).lexeme
    /\ n.pos = <<OpTok(k).line, OpTok(k).column>>
    /\ Len(n.children) = 2

\* the node made from the k-th operator
OpNode(k) == CHOOSE n \in Nodes(Expr) : IsOpNode(n, k)

BinaryParsed ==
    /\ pc = "loaded"
    /\ parsed.err = NoParseErr
    /\ \A k \in 1..NumOps : \E n \in Nodes(Expr) : IsOpNode(n, k)

\* C10 as stated: of two adjacent operators, the node of the one with the
\* higher precedence is a child of the node of the other, on the side
\* where it was written.
C10_HigherIsChild ==
    pc # "load" =>
        /\ BinaryParsed
        /\ \A k \in 1..(NumOps - 1) :
              /\ Prec(k) > Prec(k + 1)
                    => OpNode(k + 1).children[1] = OpNode(k)
              /\ Prec(k) < Prec(k + 1)
                    => OpNode(k).children[2] = OpNode(k + 1)

\* C10, amended: of two adjacent operators, the node of the one with the
\* higher precedence lies in the subtree of the other's child on the side
\* where it was written, and is that child when the expression has no
\* other operator.
C10_HigherIsNestedInside ==
    pc # "load" =>
        /\ BinaryParsed
        /\ \A k \in 1..(NumOps - 1) :
              /\ Prec(k) > Prec(k + 1)
                    => /\ OpNode(k) \in Nodes(OpNode(k + 1).children[1])
                       /\ NumOps = 2 => OpNode(k + 1).children[1] = OpNode(k)
              /\ Prec(k) < Prec(k + 1)
                    => /\ OpNode(k + 1) \in Nodes(OpNode(k).children[2])
                       /\ NumOps = 2 => OpNode(k).children[2] = OpNode(k + 1)

\* a + a * a + a parsed: the node of * is a grandchild of the second +
C10_Witness ==
    /\ BinaryParsed
    /\ NumOps = 3
    /\ Prec(1) < Prec(2) /\ Prec(2) > Prec(3) /\ Prec(1) = Prec(3)
    /\ ~operatorTable[OpTok(3).tType].isRightAssociative
    /\ OpNode(3).children[1] = OpNode(1)
    /\ OpNode(1).children[2] = OpNode(2)

\* operators of equal precedence have the same associativity, as in
\* JavaScript's table
ConsistentTable ==
    \A t, u \in OpTypes :
        operatorTable[t].precedence = operatorTable[u].precedence
            => operatorTable[t].isRightAssociative
                   = operatorTable[u].isRightAssociative

\* the node of the k-th operand
OperandNode(k) == makeNode("g_NAME", sourceTokens[2 * k - 1], <<>>)

RECURSIVE StackAt(_)
\* parseBinary's stacks when its inner loop starts for the k-th operator
\* (for k = NumOps + 1: when the outer loop breaks)
StackAt(k) ==
    IF k = 1
    THEN [opStack |-> <<>>, outputStack |-> <<OperandNode(1)>>, root |-> <<>>]
    ELSE LET reduced ==
                 reduceLoop(StackAt(k - 1), operatorTable[OpTok(k - 1).tType])
         IN  [reduced EXCEPT
                 !.opStack = Append(@, OpTok(k - 1)),
                 !.outputStack = Append(@, OperandNode(k))]

\* the operator stack the inner loop leaves for the k-th operator
StackAfter(k) == reduceLoop(StackAt(k), operatorTable[OpTok(k).tType]).opStack

\* the stacks above are those of the parse that was made
StacksOfParse ==
    LET end == drain(StackAt(NumOps + 1), Len(StackAt(NumOps + 1).opStack))
    IN  Expr = IF end.root # <<>> THEN end.root[1] ELSE OperandNode(1)

Op(t) == operatorTable[t.tType]

\* C11: before an operator is pushed, every stacked operator of strictly
\* higher precedence, or of equal precedence when the incoming operator is
\* left-associative, has been reduced, and no other; a stacked
\* right-associative operator is reduced only when the incoming operator's
\* precedence differs from its own; a op b op c yields (a op b) op c for a
\* left-associative op and a op (b op c) for a right-associative op.
C11_ReducedBeforePush ==
    pc # "load" =>
        /\ BinaryParsed
        /\ StacksOfParse
        /\ \A k \in 1..NumOps :
              LET before == StackAt(k).opStack
                  after  == StackAfter(k)
                  in     == Op(OpTok(k))
              IN  /\ Len(after) <= Len(before)
                  /\ after = SubSeq(before, 1, Len(after))
                  /\ \A i \in DOMAIN after :
                        ~ \/ Op(after[i]).precedence > in.precedence
                          \/ /\ Op(after[i]).precedence = in.precedence
                             /\ ~in.isRightAssociative
                  /\ \A i \in (Len(after) + 1)..Len(before) :
                        /\ \/ Op(before[i]).precedence > in.precedence
                           \/ /\ Op(before[i]).precedence = in.precedence
                              /\ ~in.isRightAssociative
                        /\ (ConsistentTable /\ Op(before[i]).isRightAssociative)
                              => Op(before[i]).precedence # in.precedence
        /\ (NumOps = 2 /\ OpTok(1).tType = OpTok(2).tType)
              => IF Op(OpTok(1)).isRightAssociative
                 THEN Expr = makeNode("g_EXPRESSION", OpTok(1),
                                 <<OperandNode(1),
                                   makeNode("g_EXPRESSION", OpTok(2),
                                       <<OperandNode(2), OperandNode(3)>>)>>)
                 ELSE Expr = makeNode("g_EXPRESSION", OpTok(2),
                                 <<makeNode("g_EXPRESSION", OpTok(1),
                                       <<OperandNode(1), OperandNode(2)>>),
                                   OperandNode(3)>>)

\* a parse in which an operator arrives at a stack of two operators, the
\* upper of higher precedence, the lower of equal precedence, and reduces
\* both
C11_Witness ==
    /\ BinaryParsed
    /\ NumOps = 3
    /\ ConsistentTable
    /\ Len(StackAt(3).opStack) = 2
    /\ Op(OpTok(2)).precedence > Op(OpTok(3)).precedence
    /\ Op(OpTok(1)).precedence = Op(OpTok(3)).precedence
    /\ StackAfter(3) = <<>>

\* the parser state at token i (0-based)
StateAt(i) == [index |-> i, tok |-> Tok(i), globalFlagIsInsideForIn |-> FALSE]

\* the statement terminator is absent at token i: accept(p, tSEMI) fails
SemiAbsent(i) == ~accept(StateAt(i), {"tSEMI"}).ok

AcceptingTypes == {"tNEWLINE", "tCURLY_RIGHT", "tEND_OF_INPUT"}

\* what expect(p, tSEMI) does at token i when the terminator is absent: it
\* returns iff the token is a newline, `}` or the end of input, consuming
\* the newline and nothing else; raised(panic) tells what counts as the
\* error raised otherwise
ASIDecision(i, raised(_)) ==
    LET r == expect(StateAt(i), "tSEMI")
    IN  IF Tok(i).tType \in AcceptingTypes
        THEN /\ r.panic = NoPanic
             /\ r.p.index = IF Tok(i).tType = "tNEWLINE" THEN i + 1 ELSE i
        ELSE raised(r.panic)

IsSyntaxError(panic) ==
    panic.kind = "p_UNEXPECTED_TOKEN"

IsPanic(panic) == panic # NoPanic

\* C12: when `;` is expected and absent, expect/checkASI accepts iff the
\* next token is a newline, `}` or the end of input, without consuming `}`
\* or the end of input, and raises a syntax error for any other token.
C12_SemicolonInsertion ==
    pc # "load" =>
        \A i \in 0..(Len(sourceTokens) - 1) :
            SemiAbsent(i) => ASIDecision(i, IsSyntaxError)

\* the same with any panic in place of the syntax error
SemicolonInsertionOrPanic ==
    pc # "load" =>
        \A i \in 0..(Len(sourceTokens) - 1) :
            SemiAbsent(i) => ASIDecision(i, IsPanic)

(***************************************************************************)
(* ResolveSpec: resolveES6ImportPath on import paths of up to MaxSegments  *)
(* segments, called from files at up to two directories' depth, and once   *)
(* more on its own result.  Strings are sequences of characters.           *)
(***************************************************************************)
MaxSegments == 3

RECURSIVE SplitFrom(_, _, _, _)
SplitFrom(str, sep, i, part) ==
    IF i > Len(str) THEN <<part>>
    ELSE IF str[i] = sep THEN <<part>> \o SplitFrom(str, sep, i + 1, <<>>)
    ELSE SplitFrom(str, sep, i + 1, Append(part, str[i]))

\* strings.Split(str, sep) for a one-character sep
Split(str, sep) == SplitFrom(str, sep, 1, <<>>)

RECURSIVE Join(_, _)
\* strings.Join(parts, sep)
Join(parts, sep) ==
    IF Len(parts) = 0 THEN <<>>
    ELSE IF Len(parts) = 1 THEN parts[1]
    ELSE parts[1] \o <<sep>> \o Join(Tail(parts), sep)

\* the quote characters of the model's string literals
IsQuote(ch) == ch = "'"

\* trimQuotesFromString: the string without the quotes around it
trimQuotesFromString(str) ==
    IF Len(str) >= 2 /\ IsQuote(str[1]) /\ str[Len(str)] = str[1]
    THEN SubSeq(str, 2, Len(str) - 1)
    ELSE str

Dot == <<".">>

DotDot == <<".", ".">>

RECURSIVE resolveLoop(_, _, _)
\* the loop of lines 339-347 over the parts the range statement was given;
\* st = [locationParts, pathParts, fault], fault: a slice expression out of
\* range
resolveLoop(parts, k, st) ==
    IF k > Len(parts) \/ st.fault THEN st
    ELSE IF parts[k] = DotDot
    THEN IF Len(st.locationParts) = 0 \/ Len(st.pathParts) = 0
         THEN [st EXCEPT !.fault = TRUE]
         ELSE resolveLoop(parts, k + 1,
                  [st EXCEPT
                      !.locationParts = SubSeq(@, 1, Len(@) - 1),
                      !.pathParts = Tail(@)])
    ELSE IF parts[k] = Dot
    THEN IF Len(st.pathParts) = 0
         THEN [st EXCEPT !.fault = TRUE]
         ELSE resolveLoop(parts, k + 1, [st EXCEPT !.pathParts = Tail(@)])
    ELSE resolveLoop(parts, k + 1, st)

resolveES6ImportPath(path, fileName) ==
    LET parts    == Split(trimQuotesFromString(path), "/")
        location == Split(fileName, "/")
        relative == parts[1] = Dot \/ parts[1] = DotDot
        start    ==
            [locationParts |-> IF relative
                               THEN SubSeq(location, 1, Len(location) - 1)
                               ELSE <<<<"n", "o", "d", "e", "_", "m", "o",
                                       "d", "u", "l", "e", "s">>>>,
             pathParts     |-> IF ~relative /\ Len(parts) = 1
                               THEN Append(parts,
                                        <<"i", "n", "d", "e", "x", ".", "j",
                                          "s">>)
                               ELSE parts,
             fault         |-> FALSE]
        Finish(st) ==
            IF st.fault \/ Len(st.pathParts) = 0
            THEN [result |-> <<>>, fault |-> TRUE, returned |-> FALSE]
            ELSE [result |->
                      Join(st.locationParts \o st.pathParts, "/")
                      \o (IF \A i \in DOMAIN st.pathParts[Len(st.pathParts)] :
                                st.pathParts[Len(st.pathParts)][i] # "."
                          THEN DotJs ELSE <<>>),
                  fault |-> FALSE,
                  returned |-> TRUE]
    IN  Finish(resolveLoop(start.pathParts, 1, start))

\* the segments of the model's import paths and the importing files
Segments == {Dot, DotDot, <<"a">>, <<"b", ".", "j", "s">>}

ImportPaths ==
    {Quoted(Join(segs, "/")) :
        segs \in SeqsUpTo(Segments, MaxSegments) \ {<<>>}}

ImportingFiles ==
    {<<"x", ".", "j", "s">>,
     <<"s", "r", "c", "/", "x", ".", "j", "s">>,
     <<"s", "r", "c", "/", "l", "i", "b", "/", "x", ".", "j", "s">>}

ResolveInit ==
    /\ importPath \in ImportPaths
    /\ currentFileName \in ImportingFiles
    /\ resolved = NoResolution
    /\ resolvedAgain = NoResolution
    /\ pc = "resolve"
    /\ ParserIdle
    /\ DriverIdle

\* modifyImport line 120 (and lines 171, 252)
Resolve ==
    /\ pc = "resolve"
    /\ resolved' = resolveES6ImportPath(importPath, currentFileName)
    /\ pc' = IF resolved'.fault THEN "fault" ELSE "resolved"
    /\ UNCHANGED <<importPath, currentFileName, resolvedAgain>>
    /\ UNCHANGED <<sourceTokens, tokCap, operatorTable, parsed, loadResult>>
    /\ UNCHANGED transformVars
    /\ UNCHANGED driverVars

\* the canonical identity resolved once more, from the same file
ResolveAgain ==
    /\ pc = "resolved"
    /\ resolvedAgain' = resolveES6ImportPath(resolved.result, currentFileName)
    /\ pc' = "resolved twice"
    /\ UNCHANGED <<importPath, currentFileName, resolved>>
    /\ UNCHANGED <<sourceTokens, tokCap, operatorTable, parsed, loadResult>>
    /\ UNCHANGED transformVars
    /\ UNCHANGED driverVars

ResolveNext == Resolve \/ ResolveAgain

ResolveSpec == ResolveInit /\ [][ResolveNext]_vars

\* C13: resolving a canonical identity again gives the same identity:
\* resolveES6ImportPath(resolveES6ImportPath(x, f), f)
\*     = resolveES6ImportPath(x, f).
C13_ResolveIsIdempotent ==
    pc = "resolved twice"
        => /\ resolvedAgain.returned
           /\ resolvedAgain.result = resolved.result

\* the segments of the import path, and the directories of the importing
\* file
PathSegments == Split(trimQuotesFromString(importPath), "/")

FileDirectories ==
    SubSeq(Split(currentFileName, "/"), 1, Len(Split(currentFileName, "/")) - 1)

RECURSIVE Against(_, _, _)
\* segments k.. of the import path resolved against the directories dirs:
\* [path, climbed]; climbed: a `..` met no directory to remove
Against(dirs, k, climbed) ==
    IF k > Len(PathSegments) THEN [path |-> dirs, climbed |-> climbed]
    ELSE IF PathSegments[k] = Dot THEN Against(dirs, k + 1, climbed)
    ELSE IF PathSegments[k] = DotDot
    THEN IF Len(dirs) = 0 THEN Against(dirs, k + 1, TRUE)
         ELSE Against(SubSeq(dirs, 1, Len(dirs) - 1), k + 1, climbed)
    ELSE Against(Append(dirs, PathSegments[k]), k + 1, climbed)

IsRelative == PathSegments[1] = Dot \/ PathSegments[1] = DotDot

\* the name ends in a segment that is not `.` or `..`
NamesFile == PathSegments[Len(PathSegments)] \notin {Dot, DotDot}

\* the path with the extension resolveES6ImportPath adds
WithExt(path) ==
    path \o (IF \A i \in DOMAIN PathSegments[Len(PathSegments)] :
                   PathSegments[Len(PathSegments)][i] # "."
             THEN DotJs ELSE <<>>)

\* C14: for an import path that starts with `.` or `..`,
\* resolveES6ImportPath returns the path resolved against the directory of
\* the importing file, every `.` dropped and every `..` removing one
\* directory wherever they stand, and it returns without fault when `..`
\* climbs above the importing file's top directory.
C14_RelativeToImporter ==
    (pc # "resolve" /\ IsRelative /\ NamesFile)
        => /\ resolved.returned
           /\ ~Against(FileDirectories, 1, FALSE).climbed
                 => resolved.result =
                        WithExt(Join(Against(FileDirectories, 1, FALSE).path,
                                     "/"))

\* the `.` and `..` segments all stand before the other segments
DotsLead ==
    \A i, j \in DOMAIN PathSegments :
        (i < j /\ PathSegments[j] \in {Dot, DotDot})
            => PathSegments[i] \in {Dot, DotDot}

\* the same for paths whose `.` and `..` segments all lead and do not climb
\* above the top directory
RelativeToImporterLeadingDots ==
    (pc # "resolve" /\ IsRelative /\ NamesFile /\ DotsLead
        /\ ~Against(FileDirectories, 1, FALSE).climbed)
        => /\ resolved.returned
           /\ resolved.result =
                  WithExt(Join(Against(FileDirectories, 1, FALSE).path, "/"))

(***************************************************************************)
(* transformIntoModule.  The values of the nodes are sequences of          *)
(* characters, as the paths are.  The closures share the context ctx (its  *)
(* parent is never set: no nested context is created) and the list         *)
(* fileImports: st is [importedVars, fileImports, fault], fault being a    *)
(* runtime panic of resolveES6ImportPath.  fileName is currentFileName.    *)
(***************************************************************************)
sRequire == <<"r", "e", "q", "u", "i", "r", "e">>
sModules == <<"m", "o", "d", "u", "l", "e", "s">>
sModule == <<"m", "o", "d", "u", "l", "e">>
sExports == <<"e", "x", "p", "o", "r", "t", "s">>
sDefault == <<"d", "e", "f", "a", "u", "l", "t">>
sModuleFns == <<"m", "o", "d", "u", "l", "e", "F", "n", "s">>
sObject == <<"O", "b", "j", "e", "c", "t">>
sAssign == <<"a", "s", "s", "i", "g", "n">>
sVar == <<"v", "a", "r">>
sEq == <<"=">>

f_EXPORT_ALL == 2

\* astNode{t, value, children, 0}
astNode(t, value, children) ==
    [t |-> t, value |-> value, children |-> children, flags |-> 0,
     pos |-> <<0, 0>>]

\* astNode{}
ZeroAst == astNode("zero", <<>>, <<>>)

nameNode(value) == astNode("g_NAME", value, <<>>)

member(object, property) ==
    astNode("g_MEMBER_EXPRESSION", <<>>, <<object, property>>)

\* modules.<objectName>
moduleMember(objectName) == member(nameNode(sModules), nameNode(objectName))

\* m[k] = v
mapSet(m, k, v) ==
    [x \in (DOMAIN m) \cup {k} |-> IF x = k THEN v ELSE m[x]]

NewContext == [importedVars |-> <<>>, fileImports |-> <<>>, fault |-> FALSE]

\* resolvedPath := resolveES6ImportPath(path, fileName)
\* fileImports = append(fileImports, resolvedPath)
resolveImport(path, st) ==
    LET Appended(r) ==
            [path |-> r.result,
             st   |-> [st EXCEPT
                          !.fileImports =
                              IF r.fault THEN @ ELSE Append(@, r.result),
                          !.fault = @ \/ r.fault]]
    IN  Appended(resolveES6ImportPath(path, currentFileName))

RECURSIVE modifyAst(_, _)

RECURSIVE modifyEach(_, _, _)
\* for _, c := range children { ... append(..., modifyAst(c, ctx)) }
modifyEach(children, k, acc) ==
    LET Collect(r) ==
            modifyEach(children, k + 1,
                       [nodes |-> Append(acc.nodes, r.node), st |-> r.st])
    IN  IF k > Len(children) THEN acc
        ELSE Collect(modifyAst(children[k], acc.st))

modifyChildren(n, st) == modifyEach(n.children, 1, [nodes |-> <<>>, st |-> st])

modifyMemberExpression(n, st) ==
    LET Renamed(c) ==
            IF c.nodes[1].value = sModule /\ c.nodes[2].value = sExports
            THEN [c.nodes EXCEPT ![1].value = sExports,
                                 ![2].value = sDefault]
            ELSE c.nodes
        Done(c) == [node |-> [n EXCEPT !.children = Renamed(c)], st |-> c.st]
    IN  Done(modifyChildren(n, st))

RECURSIVE bindImportVars(_, _, _, _, _)
\* for _, v := range vars { ... ctx.importedVars[alias.value] = ... }
bindImportVars(importVars, k, importedVars, objectName, ext) ==
    IF k > Len(importVars) THEN importedVars
    ELSE bindImportVars(
             importVars, k + 1,
             mapSet(importedVars, importVars[k].children[2].value,
                    IF ext = DotJs
                    THEN member(moduleMember(objectName),
                                importVars[k].children[1])
                    ELSE astNode("g_STRING_LITERAL",
                                 Quoted(objectName \o ext), <<>>)),
             objectName, ext)

modifyImport(n, st) ==
    LET WithAll(c, r, objectName) ==
            IF c.nodes[2].value # <<>>
            THEN mapSet(r.st.importedVars, c.nodes[2].value,
                        nameNode(objectName))
            ELSE r.st.importedVars
        Bind(c, r, objectName) ==
            [node |-> astNode("g_EMPTY_EXPRESSION", <<>>, <<>>),
             st   |-> [r.st EXCEPT
                          !.importedVars =
                              bindImportVars(c.nodes[1].children, 1,
                                             WithAll(c, r, objectName),
                                             objectName, Ext(r.path))]]
        Resolved(c, r) == Bind(c, r, CreateVarNameFromPath(r.path))
        Modified(c) == Resolved(c, resolveImport(c.nodes[3].value, c.st))
    IN  Modified(modifyChildren(n, st))

modifyFunctionCall(n, st) ==
    LET Rewritten(r) ==
            [node |-> member(moduleMember(CreateVarNameFromPath(r.path)),
                             nameNode(sDefault)),
             st   |-> r.st]
        Called(c, args) ==
            IF /\ c.nodes[1].value = sRequire
               /\ Len(args) = 1
               /\ args[1].t = "g_STRING_LITERAL"
            THEN Rewritten(resolveImport(args[1].value, c.st))
            ELSE [node |-> [n EXCEPT !.children = c.nodes], st |-> c.st]
        Modified(c) == Called(c, c.nodes[2].children)
    IN  Modified(modifyChildren(n, st))

modifyProgram(n, st) ==
    LET exportsObj == nameNode(sExports)
        declSt ==
            astNode("g_DECLARATION_STATEMENT", <<>>,
                <<astNode("g_DECLARATION_EXPRESSION", sVar,
                    <<astNode("g_DECLARATOR", <<>>,
                        <<exportsObj,
                          astNode("g_OBJECT_LITERAL", <<>>, <<>>)>>)>>)>>)
        funcExpr(statements) ==
            astNode("g_FUNCTION_EXPRESSION", <<>>,
                <<astNode("g_FUNCTION_PARAMETERS", <<>>, <<>>),
                  astNode("g_BLOCK_STATEMENT", <<>>, statements)>>)
        memExpr ==
            member(nameNode(sModuleFns),
                   nameNode(CreateVarNameFromPath(currentFileName)))
        Wrap(statements, st2) ==
            [node |-> astNode("g_EXPRESSION_STATEMENT", <<>>,
                         <<astNode("g_EXPRESSION", sEq,
                                   <<memExpr, funcExpr(statements)>>)>>),
             st   |-> st2]
        \* the second loop modifies the modified children once more
        Second(c) ==
            Wrap(<<declSt>> \o c.nodes
                     \o <<astNode("g_RETURN_STATEMENT", <<>>,
                                  <<exportsObj>>)>>,
                 c.st)
        First(c) == Second(modifyEach(c.nodes, 1,
                                      [nodes |-> <<>>, st |-> c.st]))
    IN  First(modifyChildren(n, st))

modifyExport(n, st) ==
    LET exportsObj == nameNode(sExports)
        HasPath(c) == c.nodes[3].value # <<>>
        assignment(c, v, mem) ==
            astNode("g_EXPRESSION", sEq,
                <<member(exportsObj, v.children[2]),
                  IF HasPath(c) THEN member(mem, v.children[1])
                  ELSE v.children[1]>>)
        Named(c, mem) ==
            astNode("g_MULTISTATEMENT", <<>>,
                <<c.nodes[2],
                  astNode("g_EXPRESSION_STATEMENT", <<>>,
                      <<astNode("g_SEQUENCE_EXPRESSION", sEq,
                            [k \in DOMAIN c.nodes[1].children |->
                                assignment(c, c.nodes[1].children[k],
                                           mem)])>>)>>)
        All(mem) ==
            astNode("g_EXPRESSION_STATEMENT", <<>>,
                <<astNode("g_FUNCTION_CALL", <<>>,
                      <<member(nameNode(sObject), nameNode(sAssign)),
                        astNode("g_FUNCTION_ARGS", <<>>,
                                <<exportsObj, mem>>)>>)>>)
        Emit(c, mem, st2) ==
            [node |-> IF (n.flags \div f_EXPORT_ALL) % 2 = 0
                      THEN Named(c, mem) ELSE All(mem),
             st   |-> st2]
        WithPath(c, r) ==
            Emit(c, moduleMember(CreateVarNameFromPath(r.path)), r.st)
        Modified(c) ==
            IF HasPath(c)
            THEN WithPath(c, resolveImport(c.nodes[3].value, c.st))
            ELSE Emit(c, ZeroAst, c.st)
    IN  Modified(modifyChildren(n, st))

modifyAst(n, st) ==
    LET Default(c) == [node |-> [n EXCEPT !.children = c.nodes], st |-> c.st]
    IN  CASE n.t = "g_MEMBER_EXPRESSION" -> modifyMemberExpression(n, st)
          [] n.t = "g_FUNCTION_CALL"     -> modifyFunctionCall(n, st)
          [] n.t = "g_EXPORT_STATEMENT"  -> modifyExport(n, st)
          [] n.t = "g_PROGRAM_STATEMENT" -> modifyProgram(n, st)
          [] n.t = "g_IMPORT_STATEMENT"  -> modifyImport(n, st)
          [] n.t = "g_NAME" ->
                [node |-> IF n.value \in DOMAIN st.importedVars
                          THEN st.importedVars[n.value] ELSE n,
                 st   |-> st]
          [] OTHER -> Default(modifyChildren(n, st))

\* transformIntoModule(program, currentFileName)
transformIntoModule(program) ==
    LET Return(r) ==
            [res         |-> IF r.st.fault THEN ZeroNode ELSE r.node,
             fileImports |-> IF r.st.fault THEN <<>> ELSE r.st.fileImports,
             fault       |-> r.st.fault,
             returned    |-> ~r.st.fault]
    IN  Return(modifyAst(program, NewContext))

(***************************************************************************)
(* TransformSpec: transformIntoModule on every program of up to MaxProgram *)
(* statements of the family below, in the shapes the parser builds.        *)
(***************************************************************************)
MaxProgram == 3

sFoo == <<"f", "o", "o">>

PathM == Quoted(<<".", "/", "m", ".", "j", "s">>)
PathN == Quoted(<<".", "/", "n", ".", "j", "s">>)

requireCall(path) ==
    astNode("g_FUNCTION_CALL", <<>>,
        <<nameNode(sRequire),
          astNode("g_FUNCTION_ARGS", <<>>,
                  <<astNode("g_STRING_LITERAL", path, <<>>)>>)>>)

function(name, params, statements) ==
    astNode("g_FUNCTION_DECLARATION", name,
        <<astNode("g_FUNCTION_PARAMETERS", <<>>, params),
          astNode("g_BLOCK_STATEMENT", <<>>, statements)>>)

return(expr) == astNode("g_RETURN_STATEMENT", <<>>, <<expr>>)

\* import {foo} from path;
ImportFoo(path) ==
    astNode("g_IMPORT_STATEMENT", <<>>,
        <<astNode("g_IMPORT_VARS", <<>>,
              <<astNode("g_IMPORT_VAR", <<>>,
                    <<astNode("g_IMPORT_NAME", sFoo, <<>>),
                      astNode("g_IMPORT_ALIAS", sFoo, <<>>)>>)>>),
          astNode("g_IMPORT_ALL", <<>>, <<>>),
          astNode("g_IMPORT_PATH", path, <<>>)>>)

\* require(path);
Require(path) == astNode("g_EXPRESSION_STATEMENT", <<>>, <<requireCall(path)>>)

\* function g() { return require(path) }
FnRequire(path) == function(<<"g">>, <<>>, <<return(requireCall(path))>>)

\* foo;
UseFoo == astNode("g_EXPRESSION_STATEMENT", <<>>, <<nameNode(sFoo)>>)

\* function f(foo) { return foo }
FnParam ==
    function(<<"f">>,
             <<astNode("g_FUNCTION_PARAMETER", <<>>, <<nameNode(sFoo)>>)>>,
             <<return(nameNode(sFoo))>>)

\* function h() { var foo = 1; return foo }
FnLocal ==
    function(<<"h">>, <<>>,
        <<astNode("g_DECLARATION_STATEMENT", <<>>,
              <<astNode("g_DECLARATION_EXPRESSION", sVar,
                    <<astNode("g_DECLARATOR", <<>>,
                          <<nameNode(sFoo),
                            astNode("g_NUMBER_LITERAL", <<"1">>,
                                    <<>>)>>)>>)>>),
          return(nameNode(sFoo))>>)

\* export * from path;
ExportAll(path) ==
    [astNode("g_EXPORT_STATEMENT", <<>>,
         <<astNode("g_EXPORT_VARS", <<>>, <<>>),
           astNode("g_EXPORT_DECLARATION", <<>>, <<>>),
           astNode("g_EXPORT_PATH", path, <<>>)>>)
     EXCEPT !.flags = f_EXPORT_ALL]

\* export {foo};
ExportFoo ==
    astNode("g_EXPORT_STATEMENT", <<>>,
        <<astNode("g_EXPORT_VARS", <<>>,
              <<astNode("g_EXPORT_VAR", <<>>,
                    <<astNode("g_EXPORT_NAME", sFoo, <<>>),
                      astNode("g_EXPORT_NAME", sFoo, <<>>)>>)>>),
          astNode("g_EXPORT_DECLARATION", <<>>, <<>>),
          astNode("g_EXPORT_PATH", <<>>, <<>>)>>)

\* module.exports;
ModuleExports ==
    astNode("g_EXPRESSION_STATEMENT", <<>>,
            <<member(nameNode(sModule), nameNode(sExports))>>)

ProgramStatements ==
    {ImportFoo(PathM), Require(PathM), Require(PathN), FnRequire(PathM),
     UseFoo, FnParam, FnLocal, ExportAll(PathN), ExportFoo, ModuleExports}

Programs ==
    {astNode("g_PROGRAM_STATEMENT", <<>>, statements) :
        statements \in SeqsUpTo(ProgramStatements, MaxProgram)}

TransformedFiles ==
    {<<"x", ".", "j", "s">>, <<"s", "r", "c", "/", "x", ".", "j", "s">>}

TransformInit ==
    /\ initialProgram \in Programs
    /\ transformed = NoTransform
    /\ currentFileName \in TransformedFiles
    /\ importPath = <<>>
    /\ resolved = NoResolution
    /\ resolvedAgain = NoResolution
    /\ sourceTokens = <<>>
    /\ tokCap = 0
    /\ operatorTable = StandardTable
    /\ parsed = NoParse
    /\ loadResult = NoLoad
    /\ pc = "transform"
    /\ DriverIdle

\* LoadFile line 31
Transform ==
    /\ pc = "transform"
    /\ transformed' = transformIntoModule(initialProgram)
    /\ pc' = IF transformed'.fault THEN "fault" ELSE "transformed"
    /\ UNCHANGED initialProgram
    /\ UNCHANGED <<sourceTokens, tokCap, operatorTable, parsed, loadResult>>
    /\ UNCHANGED resolverVars
    /\ UNCHANGED driverVars

TransformNext == Transform

TransformSpec == TransformInit /\ [][TransformNext]_vars

\* the statements of the source program, and what the module function's
\* block holds for the k-th of them (after `var exports = {}`)
SourceStatements == initialProgram.children

TransformedStatement(k) ==
    transformed.res.children[1].children[2].children[2].children[k + 1]

\* the identity of the file an import path names
Identity(path) == resolveES6ImportPath(path, currentFileName).result

\* the statements that require the file of path, and all that name it
Requiring(path) ==
    {k \in DOMAIN SourceStatements :
        SourceStatements[k] \in {Require(path), FnRequire(path)}}

Naming(path) ==
    Requiring(path)
        \cup {k \in DOMAIN SourceStatements :
                 SourceStatements[k] \in {ImportFoo(path), ExportAll(path)}}

Occurrences(path) ==
    Cardinality({i \in DOMAIN transformed.fileImports :
                    transformed.fileImports[i] = Identity(path)})

\* modules.<identity>.default
DefaultOf(path) ==
    member(moduleMember(CreateVarNameFromPath(Identity(path))),
           nameNode(sDefault))

RequiresRewritten ==
    \A path \in {PathM, PathN} : \A k \in Requiring(path) :
        TransformedStatement(k) =
            IF SourceStatements[k] = Require(path)
            THEN astNode("g_EXPRESSION_STATEMENT", <<>>, <<DefaultOf(path)>>)
            ELSE function(<<"g">>, <<>>, <<return(DefaultOf(path))>>)

\* C15: transformIntoModule rewrites every call require('<literal>') to
\* the member reference modules.<identity>.default of the required file,
\* and the identity of a required file stands in the returned dependency
\* list exactly once, however many times the file is required.
C15_RequireListedOnce ==
    pc = "transformed"
        => /\ RequiresRewritten
           /\ \A path \in {PathM, PathN} :
                 Requiring(path) # {} => Occurrences(path) = 1

\* every require is rewritten, and the dependency list holds a file's
\* identity once for every statement that names the file
RequireListedPerOccurrence ==
    pc = "transformed"
        => /\ RequiresRewritten
           /\ \A path \in {PathM, PathN} :
                 Occurrences(path) = Cardinality(Naming(path))

\* the functions whose parameter or local declaration is named foo
Shadowing == {FnParam, FnLocal}

\* C16: inside a nested function whose parameter or local declaration has
\* the name of an imported alias, transformIntoModule leaves the
\* occurrences of the name unchanged: the function is in the result as it
\* is in the source.
C16_InnerBindingShadowsImport ==
    pc = "transformed"
        => \A k \in DOMAIN SourceStatements :
              SourceStatements[k] \in Shadowing
                  => TransformedStatement(k) = SourceStatements[k]

\* modules.<identity>.foo
FooOf(path) ==
    member(moduleMember(CreateVarNameFromPath(Identity(path))),
           astNode("g_IMPORT_NAME", sFoo, <<>>))

RECURSIVE Replaced(_)
\* node n with every name foo replaced by the imported member
Replaced(n) ==
    IF n.t = "g_NAME" /\ n.value = sFoo THEN FooOf(PathM)
    ELSE [n EXCEPT !.children = [i \in DOMAIN n.children |->
                                     Replaced(n.children[i])]]

Imports(path) == \E k \in DOMAIN SourceStatements :
                    SourceStatements[k] = ImportFoo(path)

\* what the code does: with the import in the program, every name foo is
\* replaced, binding occurrences and shadowed ones included, and without
\* it none is
EveryNameIsReplaced ==
    pc = "transformed"
        => \A k \in DOMAIN SourceStatements :
              SourceStatements[k] \in Shadowing \cup {UseFoo}
                  => TransformedStatement(k) =
                         IF Imports(PathM)
                         THEN Replaced(SourceStatements[k])
                         ELSE SourceStatements[k]

(***************************************************************************)
(* Assignment targets (ParseSpec)                                          *)
(***************************************************************************)
\* a statement starts at index i with a number literal followed by `=`
InvalidTarget(i) ==
    /\ AfterStatements(i)
    /\ i + 1 \in DOMAIN sourceTokens
    /\ sourceTokens[i].tType = "tNUMBER"
    /\ sourceTokens[i + 1].tType = "tASSIGN"

\* C19: an assignment whose left-hand side is a number literal makes
\* parseTokens return the parsingError of an invalid left-hand side in
\* assignment, carrying the offending token, and LoadFile returns it wrapped
\* in a LoaderError and no output bytes.
C19_InvalidTargetIsReported ==
    (pc # "load" /\ \E i \in DOMAIN sourceTokens : InvalidTarget(i))
        => /\ pc = "loaded"
           /\ parsed.err.kind = "p_WRONG_ASSIGNMENT"
           /\ \E i \in DOMAIN sourceTokens :
                 /\ InvalidTarget(i)
                 /\ parsed.err.tok \in {sourceTokens[i], sourceTokens[i + 1]}
           /\ loadResult.err = LoaderError(parsed.err, entryFileName)
           /\ loadResult.data = <<>>

\* the text is statements `a;` followed by `1 = 1`
NumberAssigned ==
    \E i \in DOMAIN sourceTokens :
        /\ InvalidTarget(i)
        /\ Len(sourceTokens) = i + 3
        /\ sourceTokens[i + 2].tType = "tNUMBER"

\* what the code does: no parsingError of kind p_WRONG_ASSIGNMENT is ever
\* returned, and `1 = 1` is parsed as an expression statement, with a nil
\* error
InvalidTargetIsAccepted ==
    pc # "load"
        => /\ parsed.err.kind # "p_WRONG_ASSIGNMENT"
           /\ NumberAssigned
                 => /\ pc = "loaded"
                    /\ parsed.err = NoParseErr
                    /\ loadResult.err = NoErr
                    /\ LET last == parsed.program.children[
                                       Len(parsed.program.children)]
                       IN  /\ last.t = "g_EXPRESSION_STATEMENT"
                           /\ last.children[1].t = "g_EXPRESSION"
                           /\ last.children[1].value = "="

(***************************************************************************)
(* The cache across builds (Spec)                                          *)
(***************************************************************************)
\* the entry of f holds the modification time the file has on disk
Unchanged(f) == cacheFiles[f].LastModTime = ModTime(f)

\* a step leaves the content, the modification time and the dependency
\* list of f's entry as they are
Kept(f) ==
    /\ f \in DOMAIN cacheFiles'
    /\ cacheFiles'[f].Data = cacheFiles[f].Data
    /\ cacheFiles'[f].LastModTime = cacheFiles[f].LastModTime
    /\ cacheFiles'[f].Imports = cacheFiles[f].Imports

\* C17: no step of a build, failed or not (the reset of the reachable
\* marks, the invocations of addFileToBundle, the end of the build),
\* discards or alters the content, lastModified or dependency list of the
\* cache entry of a file whose modification time on disk is the cached one:
\* after a failed build they equal those before it.
C17_BuildKeepsUnchangedEntries ==
    [][\A f \in DOMAIN cacheFiles : Unchanged(f) => Kept(f)]_vars

\* a failed build has ended in which the entry of a file was found in the
\* cache and reused, content included
C17_Witness ==
    /\ pc = "done"
    /\ lastErr # NoErr
    /\ \E f \in DOMAIN cacheFiles :
          /\ Ext(f) = DotJs
          /\ claimed[f] = 1
          /\ loads[f] = 0
          /\ Unchanged(f)
          /\ cacheFiles[f].Data # <<>>

(***************************************************************************)
(* WatchSpec: main's build followed by watchBundledFiles.  The loop of     *)
(* checkFiles never ends (running is set to false only by the function     *)
(* watchBundledFiles returns after the loop), it polls every 100 ms, and a *)
(* build is sequential code: the steps of the program are weakly fair, the *)
(* changes of the files are not.                                           *)
(***************************************************************************)
\* lines 420-432: some reachable entry's file exists with a modification
\* time that differs from the cached one
checkFiles(files) ==
    \E path \in DOMAIN files :
        /\ files[path].IsReachable
        /\ Exists(path)
        /\ files[path].LastModTime # ModTime(path)

\* main, line 175
MainBuild == pc = "init" /\ CreateBundle

\* a poll of the watcher that finds a changed file (a poll that finds none
\* changes nothing)
CheckFiles == pc = "done" /\ checkFiles(cacheFiles) /\ CreateBundle

WatchNext ==
    \/ MainBuild
    \/ CheckFiles
    \/ AddFileToBundle
    \/ AddFilesToBundleReturn
    \/ CreateBundleFinish
    \/ WriteFile
    \/ RemoveFile

WatchSpec ==
    /\ Init
    /\ [][WatchNext]_vars
    /\ WF_vars(MainBuild)
    /\ WF_vars(CheckFiles)
    /\ WF_vars(AddFileToBundle)
    /\ WF_vars(AddFilesToBundleReturn)
    /\ WF_vars(CreateBundleFinish)

\* the last build has failed
BuildFailed == pc = "done" /\ lastErr # NoErr

\* the last build's traversal reached f, and f is on disk with another
\* modification time than it had for that build (it was missing, or is
\* cached with another one)
ChangedSinceBuild(f) ==
    /\ visits[f] > 0
    /\ Exists(f)
    /\ f \in DOMAIN cacheFiles => cacheFiles[f].LastModTime # ModTime(f)

\* C18: after a failed build, a change on disk to any file the build's
\* traversal reached (a missing file created, a broken file edited) is
\* followed by another createBundle, unless the file is removed first.
C18_ChangeTriggersRebuild ==
    \A f \in Files :
        (BuildFailed /\ ChangedSinceBuild(f))
            ~> (pc = "traverse" \/ ~Exists(f))

\* what the code does: the watcher looks at the entries marked reachable,
\* so a change to a reached file that has such an entry is followed by
\* another createBundle
ChangeToWatchedTriggersRebuild ==
    \A f \in Files :
        (/\ BuildFailed
         /\ ChangedSinceBuild(f)
         /\ f \in DOMAIN cacheFiles
         /\ cacheFiles[f].IsReachable)
            ~> (pc = "traverse" \/ ~Exists(f))

(***************************************************************************)
(* Completions (Spec)                                                      *)
(***************************************************************************)
\* Every activation of addFilesToBundle holds one completion in its channel
\* for every invocation of addFileToBundle that has returned, never more
\* than the channel's capacity len(files), and the invocation that is
\* running has room for its completion.
Completions ==
    \A k \in DOMAIN stack :
        /\ Len(stack[k].errorCh) = stack[k].i
        /\ stack[k].i <= Len(stack[k].files)
        /\ k < Len(stack) => stack[k].i < Len(stack[k].files)

\* addFilesToBundle is about to return: its calls have returned
Collecting == pc = "traverse" /\ Top.i = Len(Top.files)

\* what addFilesToBundle has returned in this step: to the invocation that
\* called it, which sends it on, or to createBundle
Returned ==
    IF Len(stack) > 1 THEN stack'[Len(stack')].errorCh[stack'[Len(stack')].i]
    ELSE lastErr'

\* C20: every invocation of addFileToBundle delivers exactly one
\* completion to the channel of its level, and addFilesToBundle returns
\* only after it has received as many completions as tasks it launched;
\* no task and no collector blocks.
C20_CollectorReceivesAll ==
    pc = "traverse"
        => /\ Completions
           /\ Collecting
                 => received(Top.errorCh, 1) = Len(Top.files)

\* C20, with the collector as the code has it: every invocation of
\* addFileToBundle delivers exactly one completion to the channel of its
\* level, within the channel's capacity; addFilesToBundle returns only
\* after every task it launched has delivered its completion, it receives
\* the completions in order up to the first error or, when there is none,
\* all of them, and returns that error or nil; no send meets a full
\* channel and no receive an empty one, and every step of a build
\* decreases the work left.
C20_CollectorReceivesUpToFirstError ==
    /\ [](pc = "traverse" => Completions /\ stack # <<>> /\ Variant >= 0)
    /\ [][pc = "traverse" =>
             /\ Variant' < Variant
             /\ Collecting =>
                   /\ Len(Top.errorCh) = Len(Top.files)
                   /\ received(Top.errorCh, 1) <= Len(Top.errorCh)
                   /\ \A k \in 1..(received(Top.errorCh, 1) - 1) :
                         Top.errorCh[k] = NoErr
                   /\ Returned =
                         IF \E k \in DOMAIN Top.errorCh :
                                Top.errorCh[k] # NoErr
                         THEN Top.errorCh[received(Top.errorCh, 1)]
                         ELSE NoErr
         ]_vars

\* a collector of two tasks is about to return, the first of which has
\* delivered an error and the second nil
C20_Witness ==
    /\ Collecting
    /\ Len(stack) > 1
    /\ Len(Top.files) = 2
    /\ Top.errorCh[1] # NoErr
    /\ Top.errorCh[2] = NoErr
    /\ received(Top.errorCh, 1) = 1

(***************************************************************************)
(* The cache across getJsBundleFileTail (Spec)                             *)
(***************************************************************************)
\* the step of createBundle that runs getJsBundleFileTail
Finalizes == pc = "traverse" /\ pc' = "done"

\* C21: the traversal of getJsBundleFileTail leaves the build cache as it
\* was: it adds no entry (not even for an import that has none), removes
\* none and modifies none, and the dependency list of every file, the edges
\* that close a cycle included, is the same after it as before.
C21_FinalizeKeepsCache ==
    [][Finalizes =>
          /\ DOMAIN cacheFiles' = DOMAIN cacheFiles
          /\ \A f \in DOMAIN cacheFiles :
                /\ cacheFiles'[f] = cacheFiles[f]
                /\ cacheFiles'[f].Imports = cacheFiles[f].Imports
      ]_vars

\* getJsBundleFileTail has run over the cycle a.js -> b.js -> c.js -> a.js
\* and has met the edge that closes it; the edges are in the cache
C21_Witness ==
    /\ pc = "done"
    /\ warnings = << <<A, B, C, A>> >>
    /\ cacheFiles[A].Imports = <<B>>
    /\ cacheFiles[B].Imports = <<C>>
    /\ cacheFiles[C].Imports = <<A>>

\* getJsBundleFileTail has read the entry of an import that has none
MissingEntryRead ==
    /\ pc = "done"
    /\ \E f \in DOMAIN cacheFiles : \E k \in DOMAIN cacheFiles[f].Imports :
          /\ Ext(f) = DotJs
          /\ cacheFiles[f].IsReachable
          /\ Ext(cacheFiles[f].Imports[k]) = DotJs
          /\ cacheFiles[f].Imports[k] \notin DOMAIN cacheFiles

(***************************************************************************)
(* The artifact of a successful build (Spec)                               *)
(***************************************************************************)
\* the last build has reported success
BuildSucceeded == pc = "done" /\ lastErr = NoErr

\* the invocation order in the tail of the artifact
InvocationOrder == bundle[Len(bundle)].order

Invoked(f) ==
    \E k \in DOMAIN InvocationOrder : InvocationOrder[k] = ModuleName(f)

\* the factory fragments of f between the preamble and the tail
Factories(f) ==
    {k \in 2..(Len(bundle) - 1) :
        bundle[k].kind = "module" /\ bundle[k].file = f}

\* C22: whenever a build reports success, the artifact is the preamble,
\* fragments and the tail, and every identity in the tail's invocation
\* order has exactly one factory fragment among the fragments.
C22_InvokedHasFactory ==
    BuildSucceeded
        => /\ bundle[1] = Preamble
           /\ bundle[Len(bundle)].kind = "tail"
           /\ \A f \in Files : Invoked(f) => Cardinality(Factories(f)) = 1

\* what the code does: an invoked identity has one factory fragment, or
\* none when its cache entry is the empty one that a failed load left
FactoryUnlessFailedLoadCached ==
    BuildSucceeded
        => /\ bundle[1] = Preamble
           /\ bundle[Len(bundle)].kind = "tail"
           /\ \A f \in Files :
                 Invoked(f)
                     => \/ Cardinality(Factories(f)) = 1
                        \/ /\ Factories(f) = {}
                           /\ cacheFiles[f].Data = <<>>

====
